---- MODULE Spec2Model ----
(***************************************************************************)
(* Patch-queue branch management of git-buildpackage (gbp-pq).             *)
(*                                                                         *)
(* The model covers the branch state machine of gbp/scripts/common/pq.py   *)
(* (switch_to_pq_branch, drop_pq) and the import of a quilt series with    *)
(* its "time machine" retry loop of gbp/scripts/pq.py                      *)
(* (import_quilt_patches), over an abstract git repository.                *)
(*                                                                         *)
(* Branch names are sequences of path components: "patch-queue/master" is  *)
(* <<"patch-queue", "master">>.  gbp/scripts/pq.py calls the name helpers  *)
(* without an options object; they are modelled with the default pattern   *)
(* DEFAULT_PQ_BRANCH_NAME, which is what an options object without a       *)
(* pq_branch attribute selects.                                            *)
(*                                                                         *)
(* A commit is a record [base, q]: the base-history commit it descends     *)
(* from and the sequence of commits made on top of it; a commit made by    *)
(* the import is the sequence of the lines of its message.                 *)
(*                                                                         *)
(* Further specifications cover the export of a queue branch into          *)
(* debian/patches/ (ExportSpec: export_patches, generate_patches,          *)
(* parse_gbp_commands, format_patch), format_patch and compare_series on   *)
(* their own (FormatSpec, CompareSpec), and the line buffer of an RPM spec *)
(* document under gbp/rpm/__init__.py (SpecFileSpec: parse_content,        *)
(* update_patches).  File names are sequences of characters, lines of a    *)
(* commit message and of a spec document are records naming the regular    *)
(* expression they match, and line numbers count from 0 as in the code.    *)
(* WriteSpec follows write_spec_file step by step on the file system, and  *)
(* NameSpec applies the branch-name helpers of gbp/scripts/common/pq.py to *)
(* configured patterns, with names and patterns as character sequences.    *)
(* ApplySpec runs apply_single_patch, RoundTripSpec an import followed by  *)
(* an export of the queue branch it built (the commit messages are read    *)
(* back through get_commit_info), and ConcurrentSpec one import next to a  *)
(* second gbp-pq process that switches or drops branches.                  *)
(***************************************************************************)
EXTENDS Integers, Sequences, FiniteSets, TLC

\* ------------------------------------------------------------------ bounds

\* largest value of the --time-machine option that is explored
MaxTries == 3
\* largest number of patches in the series file
MaxSeries == 2
\* largest number of scratch directories left under .git/ that is explored
MaxScratch == 1

\* number of commits in the first-parent history of master
HistLen == MaxTries

\* ------------------------------------------------------------ branch names

None == <<>>

PQ == "patch-queue"

Master == <<"master">>
Devel == <<"devel">>
Plain == <<PQ>>

\* pq_branch_match(branch, DEFAULT_PQ_BRANCH_NAME): ^patch-queue/(?P<branch>\S+)$
pq_branch_match(b) == Len(b) >= 2 /\ b[1] = PQ

is_pq_branch(b) == IF pq_branch_match(b) THEN TRUE ELSE FALSE

pq_branch_name(b) == IF ~is_pq_branch(b) THEN <<PQ>> \o b ELSE None

pq_branch_base(b) == IF pq_branch_match(b) THEN Tail(b) ELSE None

Bases == {Master, Devel, Plain}

Branches == Bases \cup {pq_branch_name(b) : b \in Bases}

\* ----------------------------------------------------------------- commits

NoCommit == [base |-> 0, q |-> <<>>]

BaseCommit(c) == [base |-> c, q |-> <<>>]

Parent(c) ==
    IF c.q # <<>> THEN [c EXCEPT !.q = SubSeq(c.q, 1, Len(c.q) - 1)]
    ELSE IF c.base > 1 THEN BaseCommit(c.base - 1)
    ELSE NoCommit

RECURSIVE FirstParents(_, _)
FirstParents(c, num) ==
    IF num = 0 \/ c = NoCommit THEN <<>>
    ELSE <<c>> \o FirstParents(Parent(c), num - 1)

\* -------------------------------------------------------------- repository

VARIABLES
    heads,        \* branch name -> tip commit (NoCommit: no such branch)
    cur,          \* the checked-out branch
    scratchDirs,  \* number of gbp-pq* scratch directories under .git/
    pc,           \* position of the running operation
    op,           \* the operation that runs or has just returned
    arg,          \* the branch the operation was invoked with
    result,       \* outcome of the operation ("" while running)
    log,          \* repository calls made by the operation, in order
    pre,          \* repository state when the operation was invoked
    loc,          \* locals of the running handler
    patchDir,     \* debian/patches/ in the working tree: patch files, series
    content,      \* SpecFile.content: the line buffer of the spec document
    patches,      \* SpecFile.patches: patch number -> patch entry
    sources,      \* SpecFile.sources: source number -> source entry
    disk,         \* the spec file and the temporary file of a write, on disk
    peer          \* a second gbp-pq process on the same repository

\* what no handler of the patch-queue scripts touches: the fields of the
\* SpecFile object, its document on disk, and the second process
svars == <<content, patches, sources, disk, peer>>

\* what only the export, the spec file and the pure-function specifications use
xvars == <<patchDir, svars>>

vars == <<heads, cur, scratchDirs, pc, op, arg, result, log, pre, loc, xvars>>

Call(c, b, r) == [call |-> c, branch |-> b, rev |-> r]

\* the repository as seen by a handler: refs, HEAD, calls so far, raised error
Repo == [heads |-> heads, cur |-> cur, log |-> log, err |-> ""]

\* repo.head: the commit HEAD points at
HeadCommit(m) == m.heads[m.cur]

has_branch(m, b) == b \in DOMAIN m.heads /\ m.heads[b] # NoCommit

\* refs/heads/a and refs/heads/a/b cannot both exist
RefConflict(m, b) ==
    \E o \in DOMAIN m.heads :
        /\ m.heads[o] # NoCommit
        /\ o # b
        /\ \/ (Len(o) < Len(b) /\ SubSeq(b, 1, Len(o)) = o)
           \/ (Len(b) < Len(o) /\ SubSeq(o, 1, Len(b)) = b)

create_branch(m, b, rev) ==
    IF has_branch(m, b) \/ RefConflict(m, b) \/ b \notin DOMAIN m.heads
    THEN [m EXCEPT !.err = "GitRepositoryError"]
    ELSE [m EXCEPT !.heads[b] = IF rev = NoCommit THEN HeadCommit(m) ELSE rev,
                   !.log = Append(@, Call("create_branch", b,
                                    IF rev = NoCommit THEN HeadCommit(m) ELSE rev))]

delete_branch(m, b) ==
    IF ~has_branch(m, b) \/ m.cur = b
    THEN [m EXCEPT !.err = "GitRepositoryError"]
    ELSE [m EXCEPT !.heads[b] = NoCommit,
                   !.log = Append(@, Call("delete_branch", b, NoCommit))]

set_branch(m, b) ==
    IF ~has_branch(m, b)
    THEN [m EXCEPT !.err = "GitRepositoryError"]
    ELSE [m EXCEPT !.cur = b,
                   !.log = Append(@, Call("checkout", b, NoCommit))]

\* repo.checkout(treeish) with a branch name
checkout(m, b) == set_branch(m, b)

\* ------------------------------------------------- gbp/scripts/common/pq.py

\* mutant: the queue branch is created but never checked out
switch_to_pq_branch_NoCheckout(m, branch) ==
    IF is_pq_branch(branch) THEN m
    ELSE LET pq_branch == pq_branch_name(branch)
             c == IF ~has_branch(m, pq_branch)
                  THEN create_branch(m, pq_branch, NoCommit)
                  ELSE m
         IN  IF c.err # "" THEN [c EXCEPT !.err = "GbpError"]
             ELSE c

\* mutant: on a queue branch, go back to its base (what switch_pq does)
switch_to_pq_branch_Toggle(m, branch) ==
    IF is_pq_branch(branch) THEN set_branch(m, pq_branch_base(branch))
    ELSE LET pq_branch == pq_branch_name(branch)
             c == IF ~has_branch(m, pq_branch)
                  THEN create_branch(m, pq_branch, NoCommit)
                  ELSE m
         IN  IF c.err # "" THEN [c EXCEPT !.err = "GbpError"]
             ELSE set_branch(c, pq_branch)

switch_to_pq_branch(m, branch) ==
    IF is_pq_branch(branch) THEN m
    ELSE LET pq_branch == pq_branch_name(branch)
             c == IF ~has_branch(m, pq_branch)
                  THEN create_branch(m, pq_branch, NoCommit)
                  ELSE m
         IN  IF c.err # "" THEN [c EXCEPT !.err = "GbpError"]
             ELSE set_branch(c, pq_branch)

\* mutant: on a queue branch, return silently instead of raising
drop_pq_Silent(m, branch) ==
    IF is_pq_branch(branch) THEN m
    ELSE LET pq_branch == pq_branch_name(branch)
         IN  IF has_branch(m, pq_branch)
             THEN delete_branch(m, pq_branch)
             ELSE m

\* mutant: a missing queue branch is an error
drop_pq_Strict(m, branch) ==
    IF is_pq_branch(branch) THEN [m EXCEPT !.err = "GbpError"]
    ELSE delete_branch(m, pq_branch_name(branch))

drop_pq(m, branch) ==
    IF is_pq_branch(branch) THEN [m EXCEPT !.err = "GbpError"]
    ELSE LET pq_branch == pq_branch_name(branch)
         IN  IF has_branch(m, pq_branch)
             THEN delete_branch(m, pq_branch)
             ELSE m

\* apply_and_commit_patch once repo.apply_patch has succeeded: the new commit
\* has repo.head as its only parent and HEAD's branch is moved to it
\* mutant: the topic line is written whether or not a topic is set
apply_and_commit_patch_AlwaysTopic(m, patch, topic) ==
    LET msg == <<patch.subject, "", patch.long_desc, "Gbp-Pq: Topic " \o topic>>
        commit == [HeadCommit(m) EXCEPT !.q = Append(@, msg)]
    IN  [m EXCEPT !.heads[m.cur] = commit,
                  !.log = Append(@, Call("commit", m.cur, commit))]

\* apply_and_commit_patch for a patch that applies: the message is
\* "%s\n\n%s" % (subject, long_desc), with "\nGbp-Pq: Topic %s" added for a
\* topic; the commit has HEAD as parent and becomes the new HEAD
apply_and_commit_patch(m, patch, topic) ==
    LET msg == <<patch.subject, "", patch.long_desc>>
                   \o (IF topic # "" THEN <<"Gbp-Pq: Topic " \o topic>> ELSE <<>>)
        commit == [HeadCommit(m) EXCEPT !.q = Append(@, msg)]
    IN  [m EXCEPT !.heads[m.cur] = commit,
                  !.log = Append(@, Call("commit", m.cur, commit))]

\* mutant: on a queue branch nothing happens
switch_pq_Stay(m, current) ==
    IF is_pq_branch(current)
    THEN m
    ELSE switch_to_pq_branch(m, current)

switch_pq(m, current) ==
    IF is_pq_branch(current)
    THEN checkout(m, pq_branch_base(current))
    ELSE switch_to_pq_branch(m, current)

\* GitCommand("rebase")([base]) that ran to its end: the commits of the current
\* branch that base lacks are replayed on top of base's tip
rebase(m, base) ==
    [m EXCEPT !.heads[m.cur] = [m.heads[base] EXCEPT !.q = HeadCommit(m).q],
              !.log = Append(@, Call("rebase", base, m.heads[base]))]

force_head(m) ==
    [m EXCEPT !.log = Append(@, Call("force_head", m.cur, HeadCommit(m)))]

\* ------------------------------------------------------------------ actions

NoLocals == [branch |-> None, pq_branch |-> None, tries |-> 0, force |-> FALSE,
             commits |-> <<>>, queue |-> <<>>, ci |-> 0, pi |-> 0,
             tmpdir |-> FALSE, failedAt |-> {}]

\* no debian/patches/ directory
NoPatchDir == [exists |-> FALSE, files |-> {}, hasSeries |-> FALSE, series |-> <<>>]

\* no write of the spec file is under way: its path holds the document `data`
NoWrite(data) == [spec |-> data, tmp |-> <<>>, hasTmp |-> FALSE,
                  tmpInSpecDir |-> TRUE, sameFs |-> TRUE]

\* no SpecFile object has been constructed
NoSpecFile == content = <<>> /\ patches = <<>> /\ sources = <<>> /\ disk = NoWrite(<<>>)

\* no second process: the action it was started for, the branch it read as
\* current, and what it saw of the first process when it started and acted
NoPeer == [pc |-> "none", op |-> "", branch |-> None, seen |-> None,
            overlap |-> FALSE, stale |-> FALSE]

Snapshot == [heads |-> heads, cur |-> cur, scratchDirs |-> scratchDirs]

Init ==
    /\ \E plain \in BOOLEAN :
         heads = [b \in Branches |->
                    IF b = Master THEN BaseCommit(HistLen)
                    ELSE IF b = Devel THEN BaseCommit(1)
                    ELSE IF b = Plain /\ plain THEN BaseCommit(1)
                    ELSE NoCommit]
    /\ cur \in {b \in Bases : heads[b] # NoCommit}
    /\ scratchDirs = 0
    /\ pc = "idle"
    /\ op = ""
    /\ arg = None
    /\ result = ""
    /\ log = <<>>
    /\ pre = Snapshot
    /\ loc = NoLocals
    /\ patchDir = NoPatchDir
    /\ NoSpecFile
    /\ peer = NoPeer

\* the handler ended (returned or raised) in state m
Leave(m, res) ==
    /\ heads' = m.heads
    /\ cur' = m.cur
    /\ log' = m.log
    /\ result' = res
    /\ pc' = "done"

\* the handler goes on to position p in state m
Goto(m, p) ==
    /\ heads' = m.heads
    /\ cur' = m.cur
    /\ log' = m.log
    /\ result' = ""
    /\ pc' = p

\* the outcome of a handler that ran to its end in state m
Outcome(m) == IF m.err = "" THEN "ok" ELSE m.err

\* switch_to_pq_branch as main reaches it (rebase, apply, switch): with the
\* branch that repo.get_branch() returned
SwitchToPq ==
    /\ pc = "idle"
    /\ UNCHANGED xvars
    /\ op' = "switch_to_pq_branch"
    /\ arg' = cur
    /\ pre' = Snapshot
    /\ LET m == switch_to_pq_branch(Repo, cur) IN Leave(m, Outcome(m))
    /\ UNCHANGED <<scratchDirs, loc>>

\* main: action == "switch"
SwitchPq ==
    /\ pc = "idle"
    /\ UNCHANGED xvars
    /\ op' = "switch_pq"
    /\ arg' = cur
    /\ pre' = Snapshot
    /\ LET m == switch_pq(Repo, cur) IN Leave(m, Outcome(m))
    /\ UNCHANGED <<scratchDirs, loc>>

\* main: action == "drop"
DropPq ==
    /\ pc = "idle"
    /\ UNCHANGED xvars
    /\ op' = "drop_pq"
    /\ arg' = cur
    /\ pre' = Snapshot
    /\ LET m == drop_pq(Repo, cur) IN Leave(m, Outcome(m))
    /\ UNCHANGED <<scratchDirs, loc>>

\* ---------------------------------------------------- gbp/scripts/pq.py

\* mutant: started on a base branch, the queue branch is not switched to
RebaseStart_NoSwitch ==
    /\ pc = "idle"
    /\ UNCHANGED xvars
    /\ op' = "rebase_pq"
    /\ arg' = cur
    /\ pre' = Snapshot
    /\ IF is_pq_branch(cur)
       THEN /\ loc' = [NoLocals EXCEPT !.branch = pq_branch_base(cur)]
            /\ Goto(Repo, "rebase_cmd")
       ELSE /\ loc' = [NoLocals EXCEPT !.branch = cur]
            /\ Goto(Repo, "rebase_cmd")
    /\ UNCHANGED scratchDirs

\* main: action == "rebase"; rebase_pq up to the rebase command
RebaseStart ==
    /\ pc = "idle"
    /\ UNCHANGED xvars
    /\ op' = "rebase_pq"
    /\ arg' = cur
    /\ pre' = Snapshot
    /\ IF is_pq_branch(cur)
       THEN /\ loc' = [NoLocals EXCEPT !.branch = pq_branch_base(cur)]
            /\ Goto(Repo, "rebase_cmd")
       ELSE LET m == switch_to_pq_branch(Repo, cur)
            IN  IF m.err # ""
                THEN Leave(m, m.err) /\ loc' = NoLocals
                ELSE Goto(m, "rebase_cmd") /\ loc' = [NoLocals EXCEPT !.branch = cur]
    /\ UNCHANGED scratchDirs

\* rebase_pq: GitCommand("rebase")([base]) succeeds
RebaseCmdOk ==
    /\ pc = "rebase_cmd"
    /\ UNCHANGED xvars
    /\ Leave(rebase(Repo, loc.branch), "ok")
    /\ UNCHANGED <<scratchDirs, op, arg, pre, loc>>

\* rebase_pq: GitCommand("rebase")([base]) stops on a conflict; no ref has moved
RebaseCmdFail ==
    /\ pc = "rebase_cmd"
    /\ UNCHANGED xvars
    /\ Leave(Repo, "CommandExecFailed")
    /\ UNCHANGED <<scratchDirs, op, arg, pre, loc>>

\* main: action == "import"; tries is the time-machine option, at least 1
ImpStart ==
    /\ pc = "idle"
    /\ UNCHANGED xvars
    /\ scratchDirs < MaxScratch
    /\ \E tm \in 0..MaxTries, f \in BOOLEAN :
         loc' = [NoLocals EXCEPT !.branch = cur,
                                 !.tries = IF tm > 0 THEN tm ELSE 1,
                                 !.force = f]
    /\ op' = "import"
    /\ arg' = cur
    /\ pre' = Snapshot
    /\ pc' = "imp_branch"
    /\ UNCHANGED <<heads, cur, scratchDirs, result, log>>

\* mutant: a queue branch is resolved to its base whether or not force is set
ImpBranch_IgnoreForce ==
    /\ pc = "imp_branch"
    /\ UNCHANGED xvars
    /\ IF is_pq_branch(loc.branch)
       THEN LET base == pq_branch_base(loc.branch)
                m == checkout(Repo, base)
            IN  /\ loc' = [loc EXCEPT !.branch = base,
                                      !.pq_branch = pq_branch_name(base)]
                /\ IF m.err # "" THEN Leave(m, m.err)
                   ELSE Goto(m, "imp_exists")
       ELSE /\ loc' = [loc EXCEPT !.pq_branch = pq_branch_name(loc.branch)]
            /\ Goto(Repo, "imp_exists")
    /\ UNCHANGED <<scratchDirs, op, arg, pre>>

\* mutant: with force the base is resolved but not checked out
ImpBranch_NoCheckout ==
    /\ pc = "imp_branch"
    /\ UNCHANGED xvars
    /\ IF is_pq_branch(loc.branch)
       THEN IF loc.force
            THEN LET base == pq_branch_base(loc.branch)
                 IN  /\ loc' = [loc EXCEPT !.branch = base,
                                           !.pq_branch = pq_branch_name(base)]
                     /\ Goto(Repo, "imp_exists")
            ELSE /\ Leave(Repo, "Already on a patch-queue branch")
                 /\ UNCHANGED loc
       ELSE /\ loc' = [loc EXCEPT !.pq_branch = pq_branch_name(loc.branch)]
            /\ Goto(Repo, "imp_exists")
    /\ UNCHANGED <<scratchDirs, op, arg, pre>>

\* import_quilt_patches: is the branch itself a patch-queue branch?
ImpBranch ==
    /\ pc = "imp_branch"
    /\ UNCHANGED xvars
    /\ IF is_pq_branch(loc.branch)
       THEN IF loc.force
            THEN LET base == pq_branch_base(loc.branch)
                     m == checkout(Repo, base)
                 IN  /\ loc' = [loc EXCEPT !.branch = base,
                                           !.pq_branch = pq_branch_name(base)]
                     /\ IF m.err # "" THEN Leave(m, m.err)
                        ELSE Goto(m, "imp_exists")
            ELSE /\ Leave(Repo, "Already on a patch-queue branch")
                 /\ UNCHANGED loc
       ELSE /\ loc' = [loc EXCEPT !.pq_branch = pq_branch_name(loc.branch)]
            /\ Goto(Repo, "imp_exists")
    /\ UNCHANGED <<scratchDirs, op, arg, pre>>

\* mutant: an existing queue branch is dropped whether or not force is set
ImpExists_AlwaysDrop ==
    /\ pc = "imp_exists"
    /\ UNCHANGED xvars
    /\ IF has_branch(Repo, loc.pq_branch)
       THEN LET m == drop_pq(Repo, loc.branch)
            IN  IF m.err # "" THEN Leave(m, m.err)
                ELSE Goto(m, "imp_prepare")
       ELSE Goto(Repo, "imp_prepare")
    /\ UNCHANGED <<scratchDirs, op, arg, pre, loc>>

\* import_quilt_patches: does the patch-queue branch exist already?
ImpExists ==
    /\ pc = "imp_exists"
    /\ UNCHANGED xvars
    /\ IF has_branch(Repo, loc.pq_branch)
       THEN IF loc.force
            THEN LET m == drop_pq(Repo, loc.branch)
                 IN  IF m.err # "" THEN Leave(m, m.err)
                     ELSE Goto(m, "imp_prepare")
            ELSE Leave(Repo, "Patch queue branch already exists")
       ELSE Goto(Repo, "imp_prepare")
    /\ UNCHANGED <<scratchDirs, op, arg, pre, loc>>

\* the patch at position i of a series file; the topic is the directory the
\* series names the patch in ("" for none)
Patch(i, topic) ==
    [path |-> i, topic |-> topic,
     subject |-> <<"fix a", "fix b", "fix c">>[i],
     long_desc |-> <<"about a", "about b", "about c">>[i]]

\* PatchSeries.read_series_file(series): patches outside and inside a topic
\* directory take turns, starting with either
SeriesFiles ==
    UNION {{[i \in 1..n |-> Patch(i, IF (i + first) % 2 = 0 THEN "t1" ELSE "")] : first \in {0, 1}}
              : n \in 0..MaxSeries}

\* import_quilt_patches: candidate commits, scratch copy, series file
ImpPrepare ==
    /\ pc = "imp_prepare"
    /\ UNCHANGED xvars
    /\ \E queue \in SeriesFiles :
         LET commits == FirstParents(HeadCommit(Repo), loc.tries)
         IN  /\ loc' = [loc EXCEPT !.commits = commits,
                                   !.tmpdir = Len(commits) > 1,
                                   !.queue = queue,
                                   !.ci = 1]
             /\ scratchDirs' = IF Len(commits) > 1 THEN scratchDirs + 1
                               ELSE scratchDirs
    /\ pc' = "imp_create"
    /\ UNCHANGED <<heads, cur, op, arg, result, log, pre>>

\* for commit in commits: ... else: raise GbpError("Couldn't apply patches")
ImpExhausted ==
    /\ pc = "imp_create"
    /\ UNCHANGED xvars
    /\ loc.ci > Len(loc.commits)
    /\ Leave(Repo, "Couldn't apply patches")
    /\ UNCHANGED <<scratchDirs, op, arg, pre, loc>>

\* mutant: every attempt starts the queue branch at HEAD, not at the candidate
ImpCreate_AtHead ==
    /\ pc = "imp_create"
    /\ UNCHANGED xvars
    /\ loc.ci <= Len(loc.commits)
    /\ LET c == create_branch(Repo, loc.pq_branch, NoCommit)
       IN  IF c.err # ""
           THEN /\ Leave(c, "Cannot create patch-queue branch")
                /\ UNCHANGED loc
           ELSE LET m == set_branch(c, loc.pq_branch)
                IN  IF m.err # ""
                    THEN Leave(m, m.err) /\ UNCHANGED loc
                    ELSE Goto(m, "imp_apply") /\ loc' = [loc EXCEPT !.pi = 1]
    /\ UNCHANGED <<scratchDirs, op, arg, pre>>

\* mutant: the new queue branch is created but not checked out
ImpCreate_Stay ==
    /\ pc = "imp_create"
    /\ UNCHANGED xvars
    /\ loc.ci <= Len(loc.commits)
    /\ LET c == create_branch(Repo, loc.pq_branch, loc.commits[loc.ci])
       IN  IF c.err # ""
           THEN /\ Leave(c, "Cannot create patch-queue branch")
                /\ UNCHANGED loc
           ELSE Goto(c, "imp_apply") /\ loc' = [loc EXCEPT !.pi = 1]
    /\ UNCHANGED <<scratchDirs, op, arg, pre>>

\* loop body up to the checkout of the new patch-queue branch
ImpCreate ==
    /\ pc = "imp_create"
    /\ UNCHANGED xvars
    /\ loc.ci <= Len(loc.commits)
    /\ LET c == create_branch(Repo, loc.pq_branch, loc.commits[loc.ci])
       IN  IF c.err # ""
           THEN /\ Leave(c, "Cannot create patch-queue branch")
                /\ UNCHANGED loc
           ELSE LET m == set_branch(c, loc.pq_branch)
                IN  IF m.err # ""
                    THEN Leave(m, m.err) /\ UNCHANGED loc
                    ELSE Goto(m, "imp_apply") /\ loc' = [loc EXCEPT !.pi = 1]
    /\ UNCHANGED <<scratchDirs, op, arg, pre>>

\* mutant: the patch is committed with the base branch checked out
ImpApplyOk_OnBase ==
    /\ pc = "imp_apply"
    /\ UNCHANGED xvars
    /\ loc.pi <= Len(loc.queue)
    /\ Goto(apply_and_commit_patch(set_branch(Repo, loc.branch), loc.queue[loc.pi],
                                   loc.queue[loc.pi].topic), "imp_apply")
    /\ loc' = [loc EXCEPT !.pi = @ + 1]
    /\ UNCHANGED <<scratchDirs, op, arg, pre>>

\* for patch in queue: the patch applies and is committed
ImpApplyOk ==
    /\ pc = "imp_apply"
    /\ UNCHANGED xvars
    /\ loc.pi <= Len(loc.queue)
    /\ Goto(apply_and_commit_patch(Repo, loc.queue[loc.pi], loc.queue[loc.pi].topic), "imp_apply")
    /\ loc' = [loc EXCEPT !.pi = @ + 1]
    /\ UNCHANGED <<scratchDirs, op, arg, pre>>

\* mutant: the partially built queue branch is not deleted on failure
ImpApplyFail_NoDelete ==
    /\ pc = "imp_apply"
    /\ UNCHANGED xvars
    /\ loc.pi <= Len(loc.queue)
    /\ LET r == force_head(Repo)
           s == set_branch(r, loc.branch)
       IN  IF s.err # "" THEN Leave(s, s.err) /\ UNCHANGED loc
           ELSE /\ Goto(s, "imp_create")
                /\ loc' = [loc EXCEPT !.failedAt = @ \cup {loc.commits[loc.ci]},
                                      !.ci = @ + 1]
    /\ UNCHANGED <<scratchDirs, op, arg, pre>>

\* mutant: after a failure the same commit is tried again
ImpApplyFail_NoAdvance ==
    /\ pc = "imp_apply"
    /\ UNCHANGED xvars
    /\ loc.pi <= Len(loc.queue)
    /\ LET r == force_head(Repo)
           s == set_branch(r, loc.branch)
           d == IF s.err # "" THEN s ELSE delete_branch(s, loc.pq_branch)
       IN  IF d.err # "" THEN Leave(d, d.err) /\ UNCHANGED loc
           ELSE /\ Goto(d, "imp_create")
                /\ loc' = [loc EXCEPT !.failedAt = @ \cup {loc.commits[loc.ci]}]
    /\ UNCHANGED <<scratchDirs, op, arg, pre>>

\* mutant: the working tree is not reset before the base branch is checked out
ImpApplyFail_NoReset ==
    /\ pc = "imp_apply"
    /\ UNCHANGED xvars
    /\ loc.pi <= Len(loc.queue)
    /\ LET s == set_branch(Repo, loc.branch)
           d == IF s.err # "" THEN s ELSE delete_branch(s, loc.pq_branch)
       IN  IF d.err # "" THEN Leave(d, d.err) /\ UNCHANGED loc
           ELSE /\ Goto(d, "imp_create")
                /\ loc' = [loc EXCEPT !.failedAt = @ \cup {loc.commits[loc.ci]},
                                      !.ci = @ + 1]
    /\ UNCHANGED <<scratchDirs, op, arg, pre>>

\* for patch in queue: the patch does not apply; roll back and go on with the
\* next older commit
ImpApplyFail ==
    /\ pc = "imp_apply"
    /\ UNCHANGED xvars
    /\ loc.pi <= Len(loc.queue)
    /\ LET r == force_head(Repo)
           s == set_branch(r, loc.branch)
           d == IF s.err # "" THEN s ELSE delete_branch(s, loc.pq_branch)
       IN  IF d.err # "" THEN Leave(d, d.err) /\ UNCHANGED loc
           ELSE /\ Goto(d, "imp_create")
                /\ loc' = [loc EXCEPT !.failedAt = @ \cup {loc.commits[loc.ci]},
                                      !.ci = @ + 1]
    /\ UNCHANGED <<scratchDirs, op, arg, pre>>

\* for patch in queue: ... else: break -- all patches applied
ImpApplied ==
    /\ pc = "imp_apply"
    /\ UNCHANGED xvars
    /\ loc.pi > Len(loc.queue)
    /\ pc' = "imp_cleanup"
    /\ UNCHANGED <<heads, cur, scratchDirs, op, arg, result, log, pre, loc>>

\* if tmpdir: shutil.rmtree(tmpdir)
ImpCleanup ==
    /\ pc = "imp_cleanup"
    /\ UNCHANGED xvars
    /\ scratchDirs' = IF loc.tmpdir THEN scratchDirs - 1 ELSE scratchDirs
    /\ Leave(Repo, "ok")
    /\ UNCHANGED <<op, arg, pre, loc>>

\* the process exits; the next invocation starts from the repository as left
Return ==
    /\ pc = "done"
    /\ UNCHANGED xvars
    /\ pc' = "idle"
    /\ op' = ""
    /\ arg' = None
    /\ result' = ""
    /\ log' = <<>>
    /\ pre' = Snapshot
    /\ loc' = NoLocals
    /\ UNCHANGED <<heads, cur, scratchDirs>>

Next ==
    \/ ImpStart
    \/ ImpBranch
    \/ ImpExists
    \/ ImpPrepare
    \/ ImpExhausted
    \/ ImpCreate
    \/ ImpApplyOk
    \/ ImpApplyFail
    \/ ImpApplied
    \/ ImpCleanup
    \/ SwitchToPq
    \/ SwitchPq
    \/ DropPq
    \/ RebaseStart
    \/ RebaseCmdOk
    \/ RebaseCmdFail
    \/ Return

Spec == Init /\ [][Next]_vars

\* the scheduler keeps running the single-threaded import until it leaves
ImportStep ==
    \/ ImpBranch
    \/ ImpExists
    \/ ImpPrepare
    \/ ImpExhausted
    \/ ImpCreate
    \/ ImpApplyOk
    \/ ImpApplyFail
    \/ ImpApplied
    \/ ImpCleanup

FairSpec == Spec /\ WF_vars(ImportStep)

\* ------------------------------------------ two processes on one repository

\* the first process is inside import_quilt_patches
Importing == op = "import" /\ pc \notin {"idle", "done"}

\* what the first process is at, as far as the second can tell
Seen == <<pc, op, loc>>

\* the actions of main that the second process is started for
PeerOps == {"switch_pq", "switch_to_pq_branch", "drop_pq"}

\* main of the second process from the branch it has read
peer_call(m, o, branch) ==
    IF o = "switch_pq" THEN switch_pq(m, branch)
    ELSE IF o = "switch_to_pq_branch" THEN switch_to_pq_branch(m, branch)
    ELSE drop_pq(m, branch)

ConcurrentInit ==
    /\ heads = [b \in Branches |-> IF b = Master THEN BaseCommit(HistLen) ELSE NoCommit]
    /\ cur = Master
    /\ scratchDirs = 0
    /\ pc = "idle"
    /\ op = ""
    /\ arg = None
    /\ result = ""
    /\ log = <<>>
    /\ pre = Snapshot
    /\ loc = NoLocals
    /\ patchDir = NoPatchDir
    /\ NoSpecFile
    /\ peer = NoPeer

\* main of the second process: current = repo.get_branch()
PeerStart ==
    /\ peer.pc = "none"
    /\ \E o \in PeerOps :
         peer' = [NoPeer EXCEPT !.pc = "run", !.op = o, !.branch = cur,
                                !.seen = Seen, !.overlap = Importing]
    /\ UNCHANGED <<heads, cur, scratchDirs, pc, op, arg, result, log, pre, loc,
                   patchDir, content, patches, sources, disk>>

\* main of the second process: the action, with the branch read before
PeerRun ==
    /\ peer.pc = "run"
    /\ LET m == peer_call(Repo, peer.op, peer.branch)
       IN  /\ heads' = m.heads
           /\ cur' = m.cur
           /\ log' = m.log
    /\ peer' = [peer EXCEPT !.pc = "done",
                            !.overlap = @ \/ Importing \/ Seen # peer.seen,
                            !.stale = cur # peer.branch \/ ~has_branch(Repo, peer.branch)]
    /\ UNCHANGED <<scratchDirs, pc, op, arg, result, pre, loc,
                   patchDir, content, patches, sources, disk>>

\* one import and one run of the second process, in any interleaving
ConcurrentNext ==
    \/ ImpStart
    \/ ImpBranch
    \/ ImpExists
    \/ ImpPrepare
    \/ ImpExhausted
    \/ ImpCreate
    \/ ImpApplyOk
    \/ ImpApplyFail
    \/ ImpApplied
    \/ ImpCleanup
    \/ PeerStart
    \/ PeerRun

ConcurrentSpec == ConcurrentInit /\ [][ConcurrentNext]_vars

\* ------------------------------------------------ apply of a single patch

\* largest number of commits on a queue branch that apply adds to
MaxApplied == 2

\* hasattr(obj, name) for the objects handed in as options
hasattr(obj, name) == name \in obj.attrs

\* an options object that carries a topic attribute
TopicOptions(t) == [attrs |-> {"topic"}, topic |-> t]

\* what main hands in as options: the value of options.topic itself, which
\* has neither a topic nor a pq_branch attribute
TopicValue(t) == [attrs |-> {}, topic |-> t]

ApplyOptions == {TopicOptions(""), TopicOptions("t1"), TopicValue("t1")}

\* mutant: a patch that does not apply drops the queue branch again
apply_single_patch_Rollback(m, branch, patch, options, applies) ==
    LET s == switch_to_pq_branch(m, branch)
        topic == IF ~hasattr(options, "topic") THEN "" ELSE options.topic
    IN  IF s.err # "" THEN s
        ELSE IF ~applies
        THEN [delete_branch(set_branch(s, branch), s.cur) EXCEPT !.err = "GitRepositoryError"]
        ELSE apply_and_commit_patch(s, patch, topic)

\* apply_single_patch; applies is the outcome of repo.apply_patch, which
\* raises GitRepositoryError before anything is committed
apply_single_patch(m, branch, patch, options, applies) ==
    LET s == switch_to_pq_branch(m, branch)
        topic == IF ~hasattr(options, "topic") THEN "" ELSE options.topic
    IN  IF s.err # "" THEN s
        ELSE IF ~applies THEN [s EXCEPT !.err = "GitRepositoryError"]
        ELSE apply_and_commit_patch(s, patch, topic)

\* the queue branch that belongs to branch b
QueueOf(b) == IF is_pq_branch(b) THEN b ELSE pq_branch_name(b)

ApplyInit ==
    /\ Init
    /\ loc = NoLocals

\* main: action == "apply"
ApplySingle ==
    /\ pc = "idle"
    /\ UNCHANGED xvars
    /\ Len(heads[QueueOf(cur)].q) < MaxApplied
    /\ op' = "apply_single_patch"
    /\ arg' = cur
    /\ pre' = Snapshot
    /\ \E options \in ApplyOptions, applies \in BOOLEAN :
         LET patch == Patch(Len(heads[QueueOf(cur)].q) + 1, "")
             m == apply_single_patch(Repo, cur, patch, options, applies)
         IN  /\ Leave(m, Outcome(m))
             /\ loc' = [patch |-> patch, options |-> options, applies |-> applies]
    /\ UNCHANGED scratchDirs

ApplyNext ==
    \/ ApplySingle
    \/ SwitchPq
    \/ DropPq
    \/ Return

ApplySpec == ApplyInit /\ [][ApplyNext]_vars

\* ------------------------------------------------------- export of a queue

\* largest number of commits on the queue branch that is explored
MaxCommits == 2

\* the file name budget of format_patch
NameBudget == 63

\* a line of a commit message: the tag before the colon ("" for plain text),
\* the command word and its argument ("" when the line has none)
Line(t, c, a) == [tag |-> t, cmd |-> c, args |-> a]

TextLine == Line("", "", "")

\* cmd in cmds, where cmds is the STRING ('ignore') or ('topic'): a Python
\* substring test, so a fragment of the command word is accepted as well
InCmds(cmd, cmds) == cmd = cmds \/ <<cmd, cmds>> \in {<<"ign", "ignore">>, <<"top", "topic">>}

\* parse_old_style_topic: a "gbp-pq-topic: <topic>" line sets the topic and
\* is taken out of the body
parse_old_style_topic(body) ==
    LET scan[i \in 0..Len(body)] ==
            IF i = 0 THEN [topic |-> "", body |-> <<>>]
            ELSE IF body[i].tag = "gbp-pq-topic" /\ body[i].args # ""
                 THEN [scan[i - 1] EXCEPT !.topic = body[i].args]
                 ELSE [scan[i - 1] EXCEPT !.body = Append(@, body[i])]
    IN  scan[Len(body)]

NoCmds == [ignore |-> FALSE, topic |-> ""]

\* parse_gbp_commands: the commands found under cmd_tag and the filtered body
parse_gbp_commands(body, cmd_tag, noarg_cmds, arg_cmds, filter_cmds) ==
    LET put(cmds, l) ==
            IF InCmds(l.cmd, arg_cmds)
            THEN IF l.args # "" /\ l.cmd = "topic" THEN [cmds EXCEPT !.topic = l.args]
                 ELSE cmds
            ELSE IF InCmds(l.cmd, noarg_cmds) /\ l.cmd = "ignore"
                 THEN [cmds EXCEPT !.ignore = TRUE]
                 ELSE cmds
        scan[i \in 0..Len(body)] ==
            IF i = 0 THEN [commands |-> NoCmds, body |-> <<>>]
            ELSE LET f == scan[i - 1]
                 IN  IF body[i].tag = cmd_tag
                     THEN [commands |-> put(f.commands, body[i]),
                           body |-> IF ~InCmds(body[i].cmd, filter_cmds)
                                    THEN Append(f.body, body[i])
                                    ELSE f.body]
                     ELSE [f EXCEPT !.body = Append(@, body[i])]
    IN  scan[Len(body)]

\* decimal digits of n
Digit(d) == <<"0", "1", "2", "3", "4", "5", "6", "7", "8", "9">>[d + 1]

RECURSIVE Dec(_)
Dec(n) == IF n < 10 THEN <<Digit(n)>> ELSE Dec(n \div 10) \o <<Digit(n % 10)>>

\* '%04d' % n
Pad4(n) == [i \in 1..(IF Len(Dec(n)) < 4 THEN 4 - Len(Dec(n)) ELSE 0) |-> "0"] \o Dec(n)

Take(s, n) == SubSeq(s, 1, IF n < Len(s) THEN (IF n < 0 THEN 0 ELSE n) ELSE Len(s))

Suffix == <<".", "p", "a", "t", "c", "h">>

\* a path below the patch directory: the topic sub-directory ("" for none)
\* and the file name, a sequence of characters
PATCH_DIR == "debian/patches/"

\* os.path.join(os.path.join(outdir, topic), filename), outdir being PATCH_DIR
Path(t, f) == [dir |-> PATCH_DIR, topic |-> t, file |-> f]

\* os.path.relpath(path, start)
relpath(path, start) == [path EXCEPT !.dir = IF @ = start THEN "" ELSE "../" \o @]

\* write_patch_file: nothing is written for an empty diff
\* write_patch_file(filename, commit_info, diff): the file name, or None (<<>>)
\* and no file for an empty diff
write_patch_file(pd, filepath, commit_info, diff) ==
    IF diff = "" THEN [pd |-> pd, patch |-> None]
    ELSE [pd |-> [pd EXCEPT !.files = {f \in @ : f.path # filepath}
                                         \cup {[path |-> filepath, id |-> commit_info.id]}],
          patch |-> filepath]

\* re.match(exclude_regex, fname): the patterns explored name a top directory
re_match_path(exclude_regex, fname) == fname[1] = exclude_regex

\* mutant: nothing is excluded
patch_path_filter_All(file_status, exclude_regex) == {<<".">>}

\* patch_path_filter(file_status, exclude_regex): the touched paths the
\* pattern does not match, or '.' without a pattern ("")
patch_path_filter(file_status, exclude_regex) ==
    IF exclude_regex # ""
    THEN {fname \in file_status : ~re_match_path(exclude_regex, fname)}
    ELSE {<<".">>}

\* repo.diff('<id>^!', paths=paths, ...): the text of the commit's changes to
\* the given paths
diff_of(commit_info, paths) ==
    IF <<".">> \in paths \/ paths \cap commit_info.files # {} THEN commit_info.diff ELSE ""

\* format_patch on st = [pd, series]: the patch directory and the series so far
format_patch(st, commit_info, numbered, path_exclude_regex, topic) ==
    LET num_prefix == Pad4(Len(st.series) + 1) \o <<"-">>
        base_maxlen == NameBudget - Len(num_prefix) - Len(Suffix)
        base == Take(commit_info.patchname, base_maxlen)
        filepath == Path(topic, (IF numbered THEN num_prefix ELSE <<>>) \o base \o Suffix)
        presuffix == <<"-">> \o Dec(Len(st.series))
        base2 == Take(base, base_maxlen - Len(presuffix)) \o presuffix
        filepath2 == IF \E i \in DOMAIN st.series : st.series[i] = filepath
                     THEN Path(topic, (IF numbered THEN num_prefix ELSE <<>>) \o base2 \o Suffix)
                     ELSE filepath
        outdir == [st.pd EXCEPT !.exists = TRUE]
        paths == patch_path_filter(commit_info.files, path_exclude_regex)
        written == IF paths # {}
                   THEN write_patch_file(outdir, filepath2, commit_info, diff_of(commit_info, paths))
                   ELSE [pd |-> outdir, patch |-> None]
    IN  [pd |-> written.pd,
         series |-> IF written.patch # None THEN Append(st.series, written.patch) ELSE st.series,
         patch |-> written.patch]

\* cmds.update(other)
update(cmds, other) ==
    [ignore |-> cmds.ignore \/ other.ignore,
     topic |-> IF other.topic # "" THEN other.topic ELSE cmds.topic]

\* generate_patches, the loop body for one commit, on st = [pd, series]
generate_patches(st, info, patch_numbers) ==
    LET old == parse_old_style_topic(info.body)
        cmds0 == [NoCmds EXCEPT !.topic = old.topic]
        gbp == parse_gbp_commands(old.body, "gbp", "ignore", "topic", "topic")
        \* cmds.update(cmds): the commands of the Gbp: family are not merged
        cmds1 == update(cmds0, cmds0)
        gbp_pq == parse_gbp_commands(gbp.body, "gbp-pq", "ignore", "topic", "topic")
        cmds2 == update(cmds1, gbp_pq.commands)
    IN  IF ~cmds2.ignore
        THEN format_patch(st, [info EXCEPT !.body = gbp_pq.body], patch_numbers, "", cmds2.topic)
        ELSE st

has_treeish(m, t) == has_branch(m, t)

Reverse(s) == [i \in 1..Len(s) |-> s[Len(s) + 1 - i]]

\* repo.get_commits(start, end): the commits of end that start does not
\* have, newest first
get_commits(m, start, end) ==
    LET s == m.heads[start]
        e == m.heads[end]
        k == IF e.base = s.base /\ Len(s.q) <= Len(e.q) /\ SubSeq(e.q, 1, Len(s.q)) = s.q
             THEN Len(s.q) ELSE 0
    IN  Reverse(SubSeq(e.q, k + 1, Len(e.q)))

\* no call of format_patch on its own yet
NoCall == [called |-> FALSE, files |-> {}, diff |-> "", path_exclude_regex |-> "",
           patch |-> None, before |-> [pd |-> NoPatchDir, series |-> <<>>]]

NoExport == [branch |-> None, pq_branch |-> None, drop |-> FALSE, patch_numbers |-> FALSE,
             dirBefore |-> NoPatchDir, rev_list |-> <<>>, patches |-> <<>>, last |-> NoCall]

\* mutant: on a queue branch the base is resolved but not checked out
ExpStart_Stay ==
    /\ pc = "idle"
    /\ op' = "export"
    /\ arg' = cur
    /\ pre' = Snapshot
    /\ LET branch == IF is_pq_branch(cur) THEN pq_branch_base(cur) ELSE cur
       IN  /\ \E drop \in BOOLEAN, patch_numbers \in BOOLEAN :
                loc' = [NoExport EXCEPT !.branch = branch,
                                        !.pq_branch = pq_branch_name(branch),
                                        !.drop = drop,
                                        !.patch_numbers = patch_numbers,
                                        !.dirBefore = patchDir]
           /\ Goto(Repo, "exp_revlist") /\ patchDir' = NoPatchDir
    /\ UNCHANGED <<scratchDirs, svars>>

\* export_patches up to the removal of the patch directory
ExpStart ==
    /\ pc = "idle"
    /\ op' = "export"
    /\ arg' = cur
    /\ pre' = Snapshot
    /\ LET m0 == Repo
           branch == IF is_pq_branch(cur) THEN pq_branch_base(cur) ELSE cur
           m == IF is_pq_branch(cur) THEN set_branch(m0, branch) ELSE m0
       IN  /\ \E drop \in BOOLEAN, patch_numbers \in BOOLEAN :
                loc' = [NoExport EXCEPT !.branch = branch,
                                        !.pq_branch = pq_branch_name(branch),
                                        !.drop = drop,
                                        !.patch_numbers = patch_numbers,
                                        !.dirBefore = patchDir]
           /\ IF m.err # ""
              THEN Leave(m, m.err) /\ UNCHANGED patchDir
              ELSE Goto(m, "exp_revlist") /\ patchDir' = NoPatchDir
    /\ UNCHANGED <<scratchDirs, svars>>

\* mutant: the commits are taken newest first, as get_commits lists them
ExpRevList_NewestFirst ==
    /\ pc = "exp_revlist"
    /\ IF ~has_treeish(Repo, loc.branch) \/ ~has_treeish(Repo, loc.pq_branch)
       THEN Leave(Repo, "GbpError") /\ UNCHANGED loc
       ELSE /\ loc' = [loc EXCEPT !.rev_list = get_commits(Repo, loc.branch, loc.pq_branch)]
            /\ Goto(Repo, "exp_commit")
    /\ UNCHANGED <<scratchDirs, op, arg, pre, patchDir, svars>>

\* generate_patches: both ends must be valid, then the commits are listed
ExpRevList ==
    /\ pc = "exp_revlist"
    /\ IF ~has_treeish(Repo, loc.branch) \/ ~has_treeish(Repo, loc.pq_branch)
       THEN Leave(Repo, "GbpError") /\ UNCHANGED loc
       ELSE /\ loc' = [loc EXCEPT !.rev_list = Reverse(get_commits(Repo, loc.branch, loc.pq_branch))]
            /\ Goto(Repo, "exp_commit")
    /\ UNCHANGED <<scratchDirs, op, arg, pre, patchDir, svars>>

\* generate_patches: one round of the loop over rev_list
ExpCommit ==
    /\ pc = "exp_commit"
    /\ loc.rev_list # <<>>
    /\ LET st == generate_patches([pd |-> patchDir, series |-> loc.patches],
                                  Head(loc.rev_list), loc.patch_numbers)
       IN  /\ patchDir' = st.pd
           /\ loc' = [loc EXCEPT !.rev_list = Tail(@), !.patches = st.series]
    /\ UNCHANGED <<heads, cur, scratchDirs, pc, op, arg, result, log, pre, svars>>

\* export_patches after generate_patches: series file, then the optional drop
ExpFinish ==
    /\ pc = "exp_commit"
    /\ loc.rev_list = <<>>
    /\ patchDir' = IF loc.patches # <<>>
                   THEN [patchDir EXCEPT
                            !.hasSeries = TRUE,
                            !.series = [i \in DOMAIN loc.patches |->
                                          relpath(loc.patches[i], PATCH_DIR)]]
                   ELSE patchDir
    /\ LET m == IF loc.drop THEN drop_pq(Repo, loc.branch) ELSE Repo
       IN  Leave(m, Outcome(m))
    /\ UNCHANGED <<scratchDirs, op, arg, pre, loc, svars>>

\* commit messages of the queue commits that are explored
Bodies ==
    {<<>>,
     <<TextLine>>,
     <<Line("gbp", "ignore", "")>>,
     <<Line("gbp-pq", "ignore", "")>>,
     <<Line("gbp-pq", "ign", "")>>,
     <<Line("gbp", "topic", "t1")>>,
     <<Line("gbp-pq", "topic", "t1")>>,
     <<Line("gbp-pq", "topic", "")>>,
     <<Line("gbp-pq-topic", "", "t2")>>,
     <<TextLine, Line("gbp-pq", "ignore", "")>>}

SrcFile == <<"src", "a.c">>
DocFile == <<"doc", "b.txt">>

\* repo.get_commit_info(commit): a commit without changes touches no file
CommitInfo(i, n, b, d) ==
    [id |-> i, patchname |-> n, body |-> b, diff |-> d,
     files |-> IF d = "" THEN {} ELSE {SrcFile}]

\* the commits that can sit at position i of the queue
Commits(i) ==
    {CommitInfo(i, <<"a">>, b, "diff") : b \in Bodies}
        \cup {CommitInfo(i, <<"b">>, <<TextLine>>, "diff"), CommitInfo(i, <<"a">>, <<TextLine>>, "")}

Queues ==
    UNION {{q \in [1..n -> UNION {Commits(i) : i \in 1..n}] : \A i \in 1..n : q[i].id = i}
              : n \in 0..MaxCommits}

\* a patch directory left by an earlier export
OldPatchDir ==
    [exists |-> TRUE,
     files |-> {[path |-> Path("", <<"o", "l", "d">> \o Suffix), id |-> 0]},
     hasSeries |-> TRUE,
     series |-> <<relpath(Path("", <<"o", "l", "d">> \o Suffix), PATCH_DIR)>>]

ExportInit ==
    /\ \E q \in Queues, present \in BOOLEAN :
         heads = [b \in Branches |->
                    IF b = Master THEN BaseCommit(1)
                    ELSE IF b = pq_branch_name(Master) /\ present THEN [base |-> 1, q |-> q]
                    ELSE NoCommit]
    /\ cur \in {b \in Branches : heads[b] # NoCommit}
    /\ scratchDirs = 0
    /\ pc = "idle"
    /\ op = ""
    /\ arg = None
    /\ result = ""
    /\ log = <<>>
    /\ pre = Snapshot
    /\ loc = NoExport
    /\ patchDir \in {NoPatchDir, OldPatchDir}
    /\ NoSpecFile
    /\ peer = NoPeer

ExportNext ==
    \/ ExpStart
    \/ ExpRevList
    \/ ExpCommit
    \/ ExpFinish

ExportSpec == ExportInit /\ [][ExportNext]_vars

\* ------------------------------------------------ import followed by export

\* the topics a series file names
Topics == {"t1"}

\* cmd_re of parse_gbp_commands on a line of text:
\* '^%s:\s*(?P<cmd>[a-z-]+)(\s+(?P<args>\S.*))?' with re.I, the command word
\* lowercased; the lines explored are the topic line of import and plain text
match_line(text) ==
    IF \E t \in Topics : text = "Gbp-Pq: Topic " \o t
    THEN Line("gbp-pq", "topic", CHOOSE t \in Topics : text = "Gbp-Pq: Topic " \o t)
    ELSE TextLine

\* the subject of a commit as a file name
patchname_of(subject) ==
    IF subject = "fix a" THEN <<"f", "i", "x", "-", "a">>
    ELSE IF subject = "fix b" THEN <<"f", "i", "x", "-", "b">>
    ELSE <<"f", "i", "x", "-", "c">>

\* repo.get_commit_info(commit) for commit i of a queue with message msg: the
\* subject is the first line, the body what follows the blank line
get_commit_info(i, msg) ==
    CommitInfo(i, patchname_of(msg[1]),
               [j \in 1..(Len(msg) - 2) |-> match_line(msg[j + 2])], "diff")

\* the file of patch i in a series file written by hand
PatchFile(i) == <<"p">> \o Dec(i) \o Suffix

\* debian/patches/ holding the patches of queue and their series file
SeriesDir(queue) ==
    [exists |-> TRUE,
     files |-> {[path |-> Path(queue[i].topic, PatchFile(i)), id |-> i] : i \in DOMAIN queue},
     hasSeries |-> TRUE,
     series |-> [i \in DOMAIN queue |->
                   relpath(Path(queue[i].topic, PatchFile(i)), PATCH_DIR)]]

\* PatchSeries.read_series_file(series): one patch per line, its topic the
\* directory part of the line
read_series_file(pd) == [i \in DOMAIN pd.series |-> Patch(i, pd.series[i].topic)]

RoundTripInit ==
    /\ heads = [b \in Branches |-> IF b = Master THEN BaseCommit(HistLen) ELSE NoCommit]
    /\ cur = Master
    /\ scratchDirs = 0
    /\ pc = "idle"
    /\ op = ""
    /\ arg = None
    /\ result = ""
    /\ log = <<>>
    /\ pre = Snapshot
    /\ loc = NoLocals
    /\ patchDir \in {SeriesDir(queue) : queue \in SeriesFiles}
    /\ NoSpecFile
    /\ peer = NoPeer

\* import_quilt_patches: candidate commits, scratch copy, and the series file
\* of the patch directory
ImpReadSeries ==
    /\ pc = "imp_prepare"
    /\ UNCHANGED xvars
    /\ LET commits == FirstParents(HeadCommit(Repo), loc.tries)
       IN  /\ loc' = [loc EXCEPT !.commits = commits,
                                 !.tmpdir = Len(commits) > 1,
                                 !.queue = read_series_file(patchDir),
                                 !.ci = 1]
           /\ scratchDirs' = IF Len(commits) > 1 THEN scratchDirs + 1
                             ELSE scratchDirs
    /\ pc' = "imp_create"
    /\ UNCHANGED <<heads, cur, op, arg, result, log, pre>>

\* the import process exits; the next invocation reads the commits of the
\* queue branch through get_commit_info. A failed import leaves no queue
\* branch, or the one it found
ReturnFromImport ==
    /\ pc = "done"
    /\ op = "import"
    /\ UNCHANGED xvars
    /\ heads' = IF result = "ok"
                THEN [heads EXCEPT ![loc.pq_branch].q =
                                      [i \in DOMAIN @ |-> get_commit_info(i, @[i])]]
                ELSE heads
    /\ pc' = "idle"
    /\ op' = ""
    /\ arg' = None
    /\ result' = ""
    /\ log' = <<>>
    /\ pre' = [Snapshot EXCEPT !.heads = heads']
    /\ loc' = NoLocals
    /\ UNCHANGED <<cur, scratchDirs>>

RoundTripNext ==
    \/ ImpStart
    \/ ImpBranch
    \/ ImpExists
    \/ ImpReadSeries
    \/ ImpExhausted
    \/ ImpCreate
    \/ ImpApplyOk
    \/ ImpApplyFail
    \/ ImpApplied
    \/ ImpCleanup
    \/ ReturnFromImport
    \/ ExpStart
    \/ ExpRevList
    \/ ExpCommit
    \/ ExpFinish

RoundTripSpec == RoundTripInit /\ [][RoundTripNext]_vars

\* ------------------------------------------------- format_patch on its own

\* largest number of patches formatted into one series
MaxPatches == 3

\* a subject longer than the budget, and one that differs from it only
\* beyond the cut
LongName == [i \in 1..60 |-> "y"]
LongName2 == [i \in 1..60 |-> IF i = 53 THEN "z" ELSE "y"]

PatchNames == {<<"x">>, <<"x", "-", "2">>, LongName, LongName2}

FormatInit ==
    /\ heads = [b \in Branches |-> IF b = Master THEN BaseCommit(1) ELSE NoCommit]
    /\ cur = Master
    /\ scratchDirs = 0
    /\ pc = "format"
    /\ op = "format_patch"
    /\ arg = None
    /\ result = ""
    /\ log = <<>>
    /\ pre = Snapshot
    /\ \E numbered \in BOOLEAN : loc = [NoExport EXCEPT !.patch_numbers = numbered]
    /\ patchDir = NoPatchDir
    /\ NoSpecFile
    /\ peer = NoPeer

\* the files a commit touches and the exclusion pattern of the call
Touched ==
    {[files |-> fs, path_exclude_regex |-> rx] :
        fs \in {{}, {SrcFile}, {DocFile}, {SrcFile, DocFile}}, rx \in {"", "doc"}}

\* one more call of format_patch on the same series
FormatPatch ==
    /\ pc = "format"
    /\ Len(loc.patches) < MaxPatches
    /\ \E name \in PatchNames, topic \in {"", "t1"}, touched \in Touched :
         LET before == [pd |-> patchDir, series |-> loc.patches]
             info == [CommitInfo(Len(loc.patches) + 1, name, <<>>,
                                 IF touched.files = {} THEN "" ELSE "diff")
                         EXCEPT !.files = touched.files]
             st == format_patch(before, info, loc.patch_numbers,
                                touched.path_exclude_regex, topic)
         IN  /\ patchDir' = st.pd
             /\ loc' = [loc EXCEPT !.patches = st.series,
                                   !.last = [called |-> TRUE, files |-> info.files,
                                             diff |-> info.diff,
                                             path_exclude_regex |-> touched.path_exclude_regex,
                                             patch |-> st.patch, before |-> before]]
    /\ UNCHANGED <<heads, cur, scratchDirs, pc, op, arg, result, log, pre, svars>>

FormatSpec == FormatInit /\ [][FormatPatch]_vars

\* ----------------------------------------------- compare_series on its own

\* longest list of patch paths that is compared
MaxList == 2

SeriesPaths == {"a", "b", "c"}

SeriesLists == UNION {[1..n -> SeriesPaths] : n \in 0..MaxList}

\* set(l)
ToSet(l) == {l[i] : i \in DOMAIN l}

\* every path of new is reported as added
compare_series_AllAdded(old, new) ==
    [added |-> ToSet(new), removed |-> ToSet(old) \ ToSet(new)]

\* compare_series: the two lists hold each path once, in no particular order
compare_series(old, new) ==
    [added |-> ToSet(new) \ ToSet(old), removed |-> ToSet(old) \ ToSet(new)]

CompareInit ==
    /\ heads = [b \in Branches |-> IF b = Master THEN BaseCommit(1) ELSE NoCommit]
    /\ cur = Master
    /\ scratchDirs = 0
    /\ pc = "compare"
    /\ op = "compare_series"
    /\ arg = None
    /\ result = ""
    /\ log = <<>>
    /\ pre = Snapshot
    /\ \E old \in SeriesLists, new \in SeriesLists :
         loc = [old |-> old, new |-> new, added |-> {}, removed |-> {}]
    /\ patchDir = NoPatchDir
    /\ NoSpecFile
    /\ peer = NoPeer

CompareSeries ==
    /\ pc = "compare"
    /\ LET r == compare_series(loc.old, loc.new)
       IN  loc' = [loc EXCEPT !.added = r.added, !.removed = r.removed]
    /\ pc' = "done"
    /\ result' = "ok"
    /\ UNCHANGED <<heads, cur, scratchDirs, op, arg, log, pre, patchDir, svars>>

CompareSpec == CompareInit /\ [][CompareSeries]_vars

\* ------------------------------------------------------ gbp/rpm/__init__.py

\* the lines of a spec document, by the regular expression they match
NameLine == [k |-> "name"]                                   \* Name: pkg
SetupLine == [k |-> "setup"]                                 \* %setup -q
PrepLine == [k |-> "prep"]                                   \* %prep
OtherLine == [k |-> "other"]                                 \* anything else
SourceLine(n) == [k |-> "source", num |-> n]                 \* Source<n>: file
IgnoreLine(nums) == [k |-> "ignore", nums |-> nums]          \* # gbpignorepatch: <nums>
PatchTagLine(n, name) == [k |-> "tag", num |-> n, name |-> name]    \* Patch<n>: name
PatchMacroLine(n, strip) == [k |-> "macro", num |-> n, strip |-> strip]  \* %patch<n> -p<strip>
CommentLine(text) == [k |-> "comment", text |-> text]        \* # text

Banner == "Patches auto-generated by git-buildpackage:"

\* the names in use that end in .patch or .diff; "fix" does not
PatchLikeNames == {"a.patch", "b.diff", "m.patch"}

\* ^\s*#.*patch.*auto-generated
IsAutoGenComment(l) == l.k = "comment" /\ l.text = Banner

\* ^\s*#.+(patch|diff)(\.(gz|bz2|xz|lzma))?\s*$
IsPatchNameComment(l) == l.k = "comment" /\ l.text \in PatchLikeNames

\* None as a line number
NoLine == -1

\* list[i] of Python, i a line number counted from 0; a negative i counts
\* from the end
At(c, i) == IF i >= 0 THEN c[i + 1] ELSE c[Len(c) + i + 1]

\* list.insert(i, x) for 0 <= i: past the end it appends
insert(c, i, x) ==
    IF i >= Len(c) THEN Append(c, x)
    ELSE SubSeq(c, 1, i) \o <<x>> \o SubSeq(c, i + 1, Len(c))

\* list.pop(i) on the list itself
pop(c, i) ==
    LET j == IF i >= 0 THEN i + 1 ELSE Len(c) + i + 1
    IN  SubSeq(c, 1, j - 1) \o SubSeq(c, j + 1, Len(c))

\* dict with one more (or one replaced) entry
Put(d, n, e) == [x \in DOMAIN d \cup {n} |-> IF x = n THEN e ELSE d[x]]

\* dict without the entries outside keep
Restrict(d, keep) == [x \in DOMAIN d \cap keep |-> d[x]]

NoRet == [nametag |-> NoLine, setupmacro |-> NoLine, prepmacro |-> NoLine]

\* the ignorepatch list after the first pass: the last annotation wins
LastIgnore(c) ==
    LET scan[i \in 0..Len(c)] ==
            IF i = 0 THEN {}
            ELSE IF c[i].k = "ignore" THEN c[i].nums ELSE scan[i - 1]
    IN  scan[Len(c)]

\* parse_content, one line of the main loop: f = [ignorepatch, patches, sources, ret, err]
parse_line(f, l, i) ==
    IF l.k = "ignore" THEN [f EXCEPT !.ignorepatch = l.nums]
    ELSE IF l.k = "source"
    THEN IF l.num \in DOMAIN f.sources
         THEN [f EXCEPT !.sources[l.num].tag_linenum = i]
         ELSE [f EXCEPT !.sources = Put(@, l.num, [tag_linenum |-> i])]
    ELSE IF l.k = "tag"
    THEN IF l.num \in DOMAIN f.patches
         THEN IF l.num \in f.ignorepatch
              THEN [f EXCEPT !.patches[l.num].tag_linenum = i]
              ELSE [f EXCEPT !.err = "GbpError"]
         ELSE [f EXCEPT !.patches = Put(@, l.num,
                   [name |-> l.name, apply |-> FALSE, strip |-> 0, macro_linenum |-> NoLine,
                    autoupdate |-> l.num \notin f.ignorepatch, tag_linenum |-> i])]
    ELSE IF l.k = "macro"
    THEN IF l.num \notin DOMAIN f.patches
         THEN [f EXCEPT !.err = "KeyError"]
         ELSE [f EXCEPT !.patches[l.num].strip = l.strip,
                        !.patches[l.num].macro_linenum = i,
                        !.patches[l.num].apply = TRUE]
    ELSE IF l.k \in {"name", "setup"} THEN [f EXCEPT !.ret.setupmacro = i]
    ELSE IF l.k = "prep" THEN [f EXCEPT !.ret.prepmacro = i]
    ELSE f

\* parse_content on the object st = [content, patches, sources]
parse_content(st) ==
    LET ignorepatch == LastIgnore(st.content)
        scan[i \in 0..Len(st.content)] ==
            IF i = 0
            THEN [ignorepatch |-> ignorepatch,
                  patches |-> Restrict(st.patches, ignorepatch),
                  sources |-> st.sources,
                  ret |-> NoRet,
                  err |-> ""]
            ELSE LET f == scan[i - 1]
                 IN  IF f.err # "" THEN f ELSE parse_line(f, st.content[i], i - 1)
    IN  scan[Len(st.content)]

Max(S) == CHOOSE x \in S : \A y \in S : y <= x
Min(S) == CHOOSE x \in S : \A y \in S : x <= y

\* sorted(S)
RECURSIVE Sorted(_)
Sorted(S) == IF S = {} THEN <<>> ELSE <<Min(S)>> \o Sorted(S \ {Min(S)})

\* for l in reversed(lines): self.content.pop(l)
RECURSIVE PopAll(_, _)
PopAll(c, lines) ==
    IF lines = <<>> THEN c
    ELSE PopAll(pop(c, lines[Len(lines)]), SubSeq(lines, 1, Len(lines) - 1))

\* for n in reversed(sorted(self.patches.keys())): the macro and its comment
RECURSIVE InsertMacros(_, _, _, _)
InsertMacros(c, linenum, ps, ns) ==
    IF ns = <<>> THEN c
    ELSE LET n == ns[Len(ns)]
             c2 == IF ps[n].autoupdate /\ ps[n].apply
                   THEN insert(insert(c, linenum, PatchMacroLine(n, ps[n].strip)),
                               linenum, CommentLine(ps[n].name))
                   ELSE c
         IN  InsertMacros(c2, linenum, ps, SubSeq(ns, 1, Len(ns) - 1))

\* for n in reversed(sorted(self.patches.keys())): the patch tag
RECURSIVE InsertTags(_, _, _, _)
InsertTags(c, linenum, ps, ns) ==
    IF ns = <<>> THEN c
    ELSE LET n == ns[Len(ns)]
             c2 == IF ps[n].autoupdate THEN insert(c, linenum, PatchTagLine(n, ps[n].name)) ELSE c
         IN  InsertTags(c2, linenum, ps, SubSeq(ns, 1, Len(ns) - 1))

NewPatch(name) ==
    [name |-> name, apply |-> TRUE, strip |-> 1, macro_linenum |-> NoLine,
     autoupdate |-> TRUE, tag_linenum |-> NoLine]

\* update_patches on the object st = [content, patches, sources]; parsed is
\* the object as parse_content left it at the start of the call
update_patches(st, patchfilenames) ==
    LET loc0 == parse_content(st)
        ps == loc0.patches
        c == st.content
        auto == {n \in DOMAIN ps : ps[n].autoupdate}
        manual == DOMAIN ps \ auto
        hasMacro(n) == ps[n].macro_linenum # NoLine /\ ps[n].macro_linenum # 0
        rm_tag_lines ==
            {ps[n].tag_linenum : n \in auto}
                \cup {ps[n].tag_linenum - 1 :
                        n \in {x \in auto : IsAutoGenComment(At(c, ps[x].tag_linenum - 1))}}
        rm_macro_lines ==
            {ps[n].macro_linenum : n \in {x \in auto : hasMacro(x)}}
                \cup {ps[n].macro_linenum - 1 :
                        n \in {x \in auto : hasMacro(x)
                                 /\ IsPatchNameComment(At(c, ps[x].macro_linenum - 1))}}
        start_patch_tag_num == Max({0} \cup {n + 1 : n \in manual})
        last_ignored_patch_tag_line == Max({0} \cup {ps[n].tag_linenum : n \in manual})
        last_ignored_patch_macro_line == Max({0} \cup {ps[n].macro_linenum : n \in manual})
        patches1 ==
            [n \in manual \cup {start_patch_tag_num + i - 1 : i \in 1..Len(patchfilenames)} |->
                IF n \in manual THEN ps[n]
                ELSE NewPatch(patchfilenames[n - start_patch_tag_num + 1])]
        keys == Sorted(DOMAIN patches1)
        \* where the %patch macros go; NoLine stands for None
        macro_anchor ==
            IF rm_macro_lines # {} THEN Max(rm_macro_lines)
            ELSE IF last_ignored_patch_macro_line # 0 THEN last_ignored_patch_macro_line
            ELSE IF "setupmacro" \in DOMAIN loc0.ret THEN loc0.ret.setupmacro
            ELSE loc0.ret.prepmacro
        c1 == PopAll(InsertMacros(c, macro_anchor + 1, patches1, keys), Sorted(rm_macro_lines))
        \* where the Patch tags go
        tag_anchor ==
            IF rm_tag_lines # {} THEN Max(rm_tag_lines)
            ELSE IF last_ignored_patch_tag_line # 0 THEN last_ignored_patch_tag_line
            ELSE IF DOMAIN loc0.sources # {}
                 THEN loc0.sources[Max(DOMAIN loc0.sources)].tag_linenum
            ELSE loc0.ret.nametag
        c2 == PopAll(insert(InsertTags(c1, tag_anchor + 1, patches1, keys),
                            tag_anchor + 1, CommentLine(Banner)),
                     Sorted(rm_tag_lines))
        out(content1, patches2, err) ==
            [content |-> content1, patches |-> patches2, sources |-> loc0.sources, err |-> err,
             parsed |-> [content |-> c, patches |-> ps, sources |-> loc0.sources]]
    IN  IF loc0.err # "" THEN out(c, ps, loc0.err)
        ELSE IF \E n \in auto : ps[n].tag_linenum = NoLine THEN out(c, ps, "TypeError")
        ELSE IF macro_anchor = NoLine THEN out(c, patches1, "TypeError")
        ELSE IF tag_anchor = NoLine THEN out(c1, patches1, "TypeError")
        ELSE out(c2, patches1, "")

\* ---------------------------------------------------- a SpecFile at work

\* largest number of update_patches calls on one SpecFile object
MaxUpdates == 2

\* the lists of patch file names handed to update_patches
PatchLists == {<<>>, <<"a.patch">>, <<"fix", "b.diff">>}

\* the spec documents: a preamble and a %prep section, every part optional
\* but the Name tag, without which rpm.spec() rejects the document
Documents ==
    {f1 \o f2 \o f3 \o f4 \o f5 \o f6 \o f7 \o f8 \o f9 \o f10 \o <<OtherLine>> :
        f1 \in {<<>>, <<IgnoreLine({1})>>},
        f2 \in {<<NameLine>>},
        f3 \in {<<>>, <<SourceLine(0)>>},
        f4 \in {<<>>, <<PatchTagLine(0, "m.patch")>>,
                <<PatchTagLine(0, "m.patch"), PatchTagLine(0, "fix")>>},
        f5 \in {<<>>, <<CommentLine(Banner), PatchTagLine(1, "a.patch")>>},
        f6 \in {<<>>, <<IgnoreLine({0})>>},
        f7 \in {<<>>, <<PrepLine>>},
        f8 \in {<<>>, <<SetupLine>>},
        f9 \in {<<>>, <<PatchMacroLine(0, 1)>>},
        f10 \in {<<>>, <<CommentLine("a.patch"), PatchMacroLine(1, 1)>>}}

\* a %patch macro of a patch that has no tag makes the constructor fail
Declared(doc) ==
    \A i \in DOMAIN doc :
        doc[i].k = "macro" => \E j \in 1..(i - 1) : doc[j].k = "tag" /\ doc[j].num = doc[i].num

NoObj == [content |-> <<>>, patches |-> <<>>, sources |-> <<>>]

SpecObj == [content |-> content, patches |-> patches, sources |-> sources]

NoRewrite == [calls |-> 0, P |-> <<>>, prevP |-> <<>>, before |-> NoObj, last |-> ""]

SpecFileInit ==
    /\ heads = [b \in Branches |-> IF b = Master THEN BaseCommit(1) ELSE NoCommit]
    /\ cur = Master
    /\ scratchDirs = 0
    /\ pc = "spec_new"
    /\ op = ""
    /\ arg = None
    /\ result = ""
    /\ log = <<>>
    /\ pre = Snapshot
    /\ content \in {d \in Documents : Declared(d)}
    /\ patches = <<>>
    /\ sources = <<>>
    /\ disk = NoWrite(content)
    /\ peer = NoPeer
    /\ loc = NoRewrite
    /\ patchDir = NoPatchDir

\* the handler of a SpecFile method ended: ready for the next call, or raised
SpecLeave(err) ==
    /\ result' = IF err = "" THEN "ok" ELSE err
    /\ pc' = IF err = "" THEN "spec_idle" ELSE "done"

\* SpecFile.__init__: the content is read and parsed
SpecNew ==
    /\ pc = "spec_new"
    /\ op' = "SpecFile"
    /\ LET r == parse_content(SpecObj)
       IN  /\ patches' = r.patches
           /\ sources' = r.sources
           /\ SpecLeave(r.err)
    /\ loc' = [NoRewrite EXCEPT !.last = "new"]
    /\ UNCHANGED <<heads, cur, scratchDirs, arg, log, pre, patchDir, content, disk, peer>>

\* SpecFile.update_patches(patchfilenames)
UpdatePatches ==
    /\ pc = "spec_idle"
    /\ loc.calls < MaxUpdates
    /\ op' = "update_patches"
    /\ \E patchfilenames \in PatchLists :
         LET r == update_patches(SpecObj, patchfilenames)
         IN  /\ content' = r.content
             /\ patches' = r.patches
             /\ sources' = r.sources
             /\ SpecLeave(r.err)
             /\ loc' = [calls |-> loc.calls + 1, P |-> patchfilenames,
                        prevP |-> IF loc.calls = 0 THEN None ELSE loc.P,
                        before |-> r.parsed, last |-> "update"]
    /\ UNCHANGED <<heads, cur, scratchDirs, arg, log, pre, patchDir, disk, peer>>

\* SpecFile.parse_content() on the buffer as it is
ParseContent ==
    /\ pc = "spec_idle"
    /\ loc.last # "parse"
    /\ op' = "parse_content"
    /\ LET r == parse_content(SpecObj)
       IN  /\ patches' = r.patches
           /\ sources' = r.sources
           /\ SpecLeave(r.err)
    /\ loc' = [loc EXCEPT !.last = "parse"]
    /\ UNCHANGED <<heads, cur, scratchDirs, arg, log, pre, patchDir, content, disk, peer>>

SpecFileNext ==
    \/ SpecNew
    \/ UpdatePatches
    \/ ParseContent

SpecFileSpec == SpecFileInit /\ [][SpecFileNext]_vars

\* ------------------------------------------- rpm: SpecFile.write_spec_file

\* documents on disk and in the buffer
Buffers ==
    {<<>>,
     <<NameLine>>,
     <<NameLine, SourceLine(0), PrepLine>>,
     <<NameLine, SourceLine(0), PatchTagLine(0, "a.patch"), PrepLine, SetupLine>>}

\* where the process runs: mkstemp(dir='.') creates the temporary file in the
\* working directory, which is the spec file's directory or not, and on the
\* spec file's filesystem or not
Environments ==
    {[tmpInSpecDir |-> TRUE, sameFs |-> TRUE],
     [tmpInSpecDir |-> FALSE, sameFs |-> TRUE],
     [tmpInSpecDir |-> FALSE, sameFs |-> FALSE]}

NoWriteLocals == [old |-> <<>>, n |-> 0]

WriteInit ==
    /\ heads = [b \in Branches |-> IF b = Master THEN BaseCommit(1) ELSE NoCommit]
    /\ cur = Master
    /\ scratchDirs = 0
    /\ pc = "ws_mkstemp"
    /\ op = "write_spec_file"
    /\ arg = None
    /\ result = ""
    /\ log = <<>>
    /\ pre = Snapshot
    /\ content \in Buffers
    /\ patches = <<>>
    /\ sources = <<>>
    /\ \E old \in Buffers, env \in Environments :
         /\ disk = [NoWrite(old) EXCEPT !.tmpInSpecDir = env.tmpInSpecDir,
                                        !.sameFs = env.sameFs]
         /\ loc = [NoWriteLocals EXCEPT !.old = old]
    /\ patchDir = NoPatchDir
    /\ peer = NoPeer

WriteFrame == UNCHANGED <<heads, cur, scratchDirs, op, arg, log, pre, patchDir,
                          content, patches, sources, peer>>

\* tempfile.mkstemp(suffix='.spec', dir='.'): an empty file in the working directory
WsMkstemp ==
    /\ pc = "ws_mkstemp"
    /\ disk' = [disk EXCEPT !.hasTmp = TRUE, !.tmp = <<>>]
    /\ loc' = [loc EXCEPT !.n = 1]
    /\ pc' = "ws_write"
    /\ UNCHANGED result
    /\ WriteFrame

\* speciofile.writelines(self.content): the next line reaches the temporary file
WsWriteLine ==
    /\ pc = "ws_write"
    /\ loc.n <= Len(content)
    /\ disk' = [disk EXCEPT !.tmp = Append(@, content[loc.n])]
    /\ loc' = [loc EXCEPT !.n = @ + 1]
    /\ UNCHANGED <<pc, result>>
    /\ WriteFrame

\* speciofile.close()
WsClose ==
    /\ pc = "ws_write"
    /\ loc.n > Len(content)
    /\ pc' = "ws_move"
    /\ UNCHANGED <<result, loc, disk>>
    /\ WriteFrame

\* shutil.move on one filesystem: os.rename puts the temporary file in place
WsRename ==
    /\ pc = "ws_move"
    /\ disk.sameFs
    /\ disk' = [disk EXCEPT !.spec = disk.tmp, !.tmp = <<>>, !.hasTmp = FALSE]
    /\ pc' = "done"
    /\ result' = "ok"
    /\ UNCHANGED loc
    /\ WriteFrame

\* shutil.move across filesystems: os.rename fails, the destination is opened
\* for writing (and so emptied) to receive a copy
WsCopyOpen ==
    /\ pc = "ws_move"
    /\ ~disk.sameFs
    /\ disk' = [disk EXCEPT !.spec = <<>>]
    /\ loc' = [loc EXCEPT !.n = 1]
    /\ pc' = "ws_copy"
    /\ UNCHANGED result
    /\ WriteFrame

\* the copy proceeds piece by piece
WsCopyLine ==
    /\ pc = "ws_copy"
    /\ loc.n <= Len(disk.tmp)
    /\ disk' = [disk EXCEPT !.spec = Append(@, disk.tmp[loc.n])]
    /\ loc' = [loc EXCEPT !.n = @ + 1]
    /\ UNCHANGED <<pc, result>>
    /\ WriteFrame

\* the copy is complete: os.unlink of the temporary file
WsUnlink ==
    /\ pc = "ws_copy"
    /\ loc.n > Len(disk.tmp)
    /\ disk' = [disk EXCEPT !.tmp = <<>>, !.hasTmp = FALSE]
    /\ pc' = "done"
    /\ result' = "ok"
    /\ UNCHANGED loc
    /\ WriteFrame

WriteNext ==
    \/ WsMkstemp
    \/ WsWriteLine
    \/ WsClose
    \/ WsRename
    \/ WsCopyOpen
    \/ WsCopyLine
    \/ WsUnlink

WriteSpec == WriteInit /\ [][WriteNext]_vars

\* ------------------------------------ common/pq.py: configurable branch names
\* Names and patterns are sequences of characters; a %(key)s placeholder of a
\* pattern is one element.

Keys == {"branch", "ver", "b"}

PlaceholderOf(key) == "%(" \o key \o ")s"

IsPlaceholder(tok) == \E key \in Keys : tok = PlaceholderOf(key)

KeyOf(tok) == CHOOSE key \in Keys : tok = PlaceholderOf(key)

DEFAULT_PQ_BRANCH_NAME ==
    <<"p", "a", "t", "c", "h", "-", "q", "u", "e", "u", "e", "/", PlaceholderOf("branch")>>

\* pq_re.groupindex: the groups re.sub made of the placeholders
groupindex(pq_fmt_str) ==
    {KeyOf(pq_fmt_str[i]) : i \in {n \in DOMAIN pq_fmt_str : IsPlaceholder(pq_fmt_str[n])}}

NoGroups == [key \in Keys |-> None]

NoMatch == [ok |-> FALSE, groups |-> NoGroups]

\* '^...$' with every placeholder turned into (?P<key>\S+): the pattern from
\* element i on against the name from character j on.  A group is greedy: the
\* longest piece that lets the rest match wins.
RECURSIVE re_match(_, _, _, _)
re_match(pat, name, i, j) ==
    IF i > Len(pat)
    THEN IF j > Len(name) THEN [ok |-> TRUE, groups |-> NoGroups] ELSE NoMatch
    ELSE IF IsPlaceholder(pat[i])
    THEN LET ends == {k \in (j + 1)..(Len(name) + 1) : re_match(pat, name, i + 1, k).ok}
         IN  IF ends = {} THEN NoMatch
             ELSE LET k == Max(ends)
                      rest == re_match(pat, name, i + 1, k)
                  IN  [rest EXCEPT !.groups[KeyOf(pat[i])] = SubSeq(name, j, k - 1)]
    ELSE IF j <= Len(name) /\ name[j] = pat[i]
    THEN re_match(pat, name, i + 1, j + 1)
    ELSE NoMatch

Raised(e) == [err |-> e, val |-> None]

Returned(v) == [err |-> "", val |-> v]

pq_branch_match_AnyPattern(branch, pq_fmt_str) == Returned(re_match(pq_fmt_str, branch, 1, 1))

\* pq_branch_match(branch, pq_fmt_str): the match object, or GbpError
pq_branch_match_fmt(branch, pq_fmt_str) ==
    IF "branch" \notin groupindex(pq_fmt_str)
    THEN Raised("GbpError")
    ELSE Returned(re_match(pq_fmt_str, branch, 1, 1))

\* options without a pq_branch attribute
NoOptions == [has_pq_branch |-> FALSE, pq_branch |-> None]

pq_format_str(options) ==
    IF options.has_pq_branch THEN options.pq_branch ELSE DEFAULT_PQ_BRANCH_NAME

\* is_pq_branch(branch, options)
is_pq_branch_opt(branch, options) ==
    LET m == pq_branch_match_fmt(branch, pq_format_str(options))
    IN  IF m.err # "" THEN Raised(m.err)
        ELSE IF m.val.ok THEN Returned(TRUE) ELSE Returned(FALSE)

\* pq_format_str % format_fields
RECURSIVE Format(_, _)
Format(pat, fields) ==
    IF pat = <<>> THEN Returned(<<>>)
    ELSE LET rest == Format(Tail(pat), fields)
             tok == Head(pat)
         IN  IF IsPlaceholder(tok) /\ fields[KeyOf(tok)] = None THEN Raised("KeyError")
             ELSE IF rest.err # "" THEN rest
             ELSE IF IsPlaceholder(tok) THEN Returned(fields[KeyOf(tok)] \o rest.val)
             ELSE Returned(<<tok>> \o rest.val)

\* pq_branch_name(branch, options, extra_keys): extra_keys gives %(ver)s or nothing
pq_branch_name_opt(branch, options, extra_keys) ==
    LET format_fields == [key \in Keys |->
                            IF key = "branch" THEN branch
                            ELSE IF key = "ver" THEN extra_keys
                            ELSE None]
        pq == is_pq_branch_opt(branch, options)
    IN  IF pq.err # "" THEN Raised(pq.err)
        ELSE IF ~pq.val THEN Format(pq_format_str(options), format_fields)
        ELSE Returned(None)

\* pq_branch_base(pq_branch, options)
pq_branch_base_opt(pq_branch, options) ==
    LET m == pq_branch_match_fmt(pq_branch, pq_format_str(options))
    IN  IF m.err # "" THEN Raised(m.err)
        ELSE IF m.val.ok THEN Returned(m.val.groups["branch"]) ELSE Returned(None)

Chars(word) ==
    CASE word = "m" -> <<"m">>
      [] word = "d" -> <<"d">>
      [] word = "pq/m" -> <<"p", "q", "/", "m">>
      [] word = "m/d" -> <<"m", "/", "d">>
      [] word = "pq/m/1" -> <<"p", "q", "/", "m", "/", "1">>
      [] word = "pq/m-1" -> <<"p", "q", "/", "m", "-", "1">>
      [] word = "patch-queue/m" -> Take(DEFAULT_PQ_BRANCH_NAME, 12) \o <<"m">>
      [] word = "1" -> <<"1">>
      [] word = "1-2" -> <<"1", "-", "2">>
      [] word = "pq/" -> <<"p", "q", "/">>

\* the configurations: no pq_branch option, and pq_branch options with and
\* without the branch placeholder
Configurations ==
    {NoOptions} \cup
    {[has_pq_branch |-> TRUE, pq_branch |-> pat] : pat \in
        {<<PlaceholderOf("branch"), "/", "d">>,
         Chars("pq/") \o <<PlaceholderOf("branch")>>,
         Chars("pq/") \o <<PlaceholderOf("branch"), "/", PlaceholderOf("ver")>>,
         Chars("pq/") \o <<PlaceholderOf("branch"), "-", PlaceholderOf("ver")>>,
         <<"d">>,
         Chars("pq/") \o <<PlaceholderOf("b")>>,
         Chars("pq/") \o <<PlaceholderOf("ver")>>}}

BranchNames ==
    {Chars(w) : w \in {"m", "d", "pq/m", "m/d", "pq/m/1", "pq/m-1", "patch-queue/m"}}

ExtraKeys == {None, Chars("1"), Chars("1-2")}

NoNameCall == [options |-> NoOptions, extra_keys |-> None, helper |-> "", subject |-> None,
               out |-> Returned(None), named |-> Returned(None)]

NameInit ==
    /\ heads = [b \in Branches |-> IF b = Master THEN BaseCommit(1) ELSE NoCommit]
    /\ cur = Master
    /\ scratchDirs = 0
    /\ pc = "name_call"
    /\ op = ""
    /\ arg \in BranchNames
    /\ result = ""
    /\ log = <<>>
    /\ pre = Snapshot
    /\ \E options \in Configurations, extra_keys \in ExtraKeys :
         loc = [NoNameCall EXCEPT !.options = options, !.extra_keys = extra_keys]
    /\ patchDir = NoPatchDir
    /\ NoSpecFile
    /\ peer = NoPeer

\* a helper returned or raised `out`
NameLeave(helper, out, next) ==
    /\ op' = helper
    /\ pc' = next
    /\ result' = IF out.err = "" THEN "ok" ELSE out.err
    /\ UNCHANGED <<heads, cur, scratchDirs, arg, log, pre, xvars>>

\* the name a helper is called with: the given one, or the generated one
Subject == IF pc = "name_named" THEN loc.named.val ELSE arg

CanCall == pc \in {"name_call", "name_named"}

PqBranchMatch ==
    /\ CanCall
    /\ loc' = [loc EXCEPT !.helper = "pq_branch_match", !.subject = Subject,
                          !.out = pq_branch_match_fmt(Subject, pq_format_str(loc.options))]
    /\ NameLeave("pq_branch_match", loc'.out, "done")

IsPqBranch ==
    /\ CanCall
    /\ loc' = [loc EXCEPT !.helper = "is_pq_branch", !.subject = Subject,
                          !.out = is_pq_branch_opt(Subject, loc.options)]
    /\ NameLeave("is_pq_branch", loc'.out, "done")

\* pq_branch_name; a generated name is then handed to the other helpers
PqBranchName ==
    /\ pc = "name_call"
    /\ LET out == pq_branch_name_opt(arg, loc.options, loc.extra_keys)
       IN  /\ loc' = [loc EXCEPT !.helper = "pq_branch_name", !.subject = arg,
                                 !.out = out, !.named = out]
           /\ NameLeave("pq_branch_name", out,
                        IF out.err = "" /\ out.val # None THEN "name_named" ELSE "done")

PqBranchBase ==
    /\ CanCall
    /\ loc' = [loc EXCEPT !.helper = "pq_branch_base", !.subject = Subject,
                          !.out = pq_branch_base_opt(Subject, loc.options)]
    /\ NameLeave("pq_branch_base", loc'.out, "done")

NameNext ==
    \/ PqBranchMatch
    \/ IsPqBranch
    \/ PqBranchName
    \/ PqBranchBase

NameSpec == NameInit /\ [][NameNext]_vars

\* ------------------------------------------------------------------ claims

Done(o) == pc = "done" /\ op = o

Unchanged == heads = pre.heads /\ cur = pre.cur

RECURSIVE NthParent(_, _)
NthParent(c, n) == IF n = 0 THEN c ELSE NthParent(Parent(c), n - 1)

Range(f) == {f[i] : i \in DOMAIN f}

Creates == SelectSeq(log, LAMBDA e : e.call = "create_branch")

InLoop == pc \in {"imp_create", "imp_apply", "imp_cleanup", "done"} /\ loc.ci >= 1

C6_WitnessForce ==
    /\ Done("import")
    /\ ~is_pq_branch(arg)
    /\ loc.force
    /\ has_branch(pre, pq_branch_name(arg))
    /\ result = "ok"

\* C7: switch_to_pq_branch with a base branch, returning successfully: the
\* queue branch exists and is current; if it did not exist before, it points at
\* the tip of the base branch, otherwise its tip is as before; no other branch
\* has changed.
C7_SwitchFromBase ==
    (Done("switch_to_pq_branch") /\ ~is_pq_branch(arg) /\ result = "ok")
        => LET pq_branch == pq_branch_name(arg)
           IN  /\ has_branch(Repo, pq_branch)
               /\ cur = pq_branch
               /\ heads = [pre.heads EXCEPT ![pq_branch] =
                             IF has_branch(pre, pq_branch) THEN @
                             ELSE pre.heads[arg]]

C7_Witness ==
    /\ Done("switch_to_pq_branch")
    /\ ~is_pq_branch(arg)
    /\ result = "ok"
    /\ ~has_branch(pre, pq_branch_name(arg))
    /\ heads[pq_branch_name(arg)] = heads[arg]
    /\ cur = pq_branch_name(arg)

\* C8: switch_to_pq_branch with a queue branch returns without any repository
\* call: no branch created or deleted, no checkout, current branch unchanged.
C8_SwitchOnQueueIsNoOp ==
    (Done("switch_to_pq_branch") /\ is_pq_branch(arg))
        => /\ result = "ok"
           /\ log = <<>>
           /\ Unchanged

C8_Witness ==
    /\ Done("switch_to_pq_branch")
    /\ is_pq_branch(arg)
    /\ cur = arg
    /\ log = <<>>

\* C9: drop_pq with a queue branch ends with an error and deletes no branch.
C9_DropOnQueueFails ==
    (Done("drop_pq") /\ is_pq_branch(arg))
        => /\ result = "GbpError"
           /\ log = <<>>
           /\ Unchanged

C9_Witness ==
    /\ Done("drop_pq")
    /\ is_pq_branch(arg)
    /\ result = "GbpError"
    /\ has_branch(Repo, arg)

\* C10: drop_pq with a base branch succeeds; afterwards the base's queue
\* branch does not exist and every other branch and the current branch are as
\* before; a second drop_pq right after it succeeds and changes nothing.
C10_DropFromBase ==
    (Done("drop_pq") /\ ~is_pq_branch(arg))
        => /\ result = "ok"
           /\ heads = [pre.heads EXCEPT ![pq_branch_name(arg)] = NoCommit]
           /\ cur = pre.cur
           /\ has_branch(Repo, arg)
           /\ drop_pq(Repo, arg) = Repo

C10_Witness ==
    /\ Done("drop_pq")
    /\ ~is_pq_branch(arg)
    /\ result = "ok"
    /\ has_branch(pre, pq_branch_name(arg))
    /\ ~has_branch(Repo, pq_branch_name(arg))

C10_WitnessAbsent ==
    /\ Done("drop_pq")
    /\ ~is_pq_branch(arg)
    /\ result = "ok"
    /\ ~has_branch(pre, pq_branch_name(arg))

C11_WitnessFromBase ==
    /\ Done("switch_pq")
    /\ ~is_pq_branch(arg)
    /\ result = "ok"
    /\ cur = pq_branch_name(arg)
    /\ switch_pq(Repo, cur).cur = arg

C12_WitnessFromQueue ==
    /\ Done("rebase_pq")
    /\ is_pq_branch(arg)
    /\ result = "ok"
    /\ pre.heads[arg].base < heads[arg].base
    /\ log = <<Call("rebase", pq_branch_base(arg), heads[pq_branch_base(arg)])>>

\* ---------------------------------------------------------- claims: export

\* the commits of the queue branch when export was invoked, oldest first
ExportedQueue == pre.heads[loc.pq_branch].q

\* the commit message carries an ignore directive of either tag family
HasIgnore(c) ==
    \E i \in DOMAIN c.body : c.body[i].tag \in {"gbp", "gbp-pq"} /\ c.body[i].cmd = "ignore"

HasQueueIgnore(c) ==
    \E i \in DOMAIN c.body : c.body[i].tag = "gbp-pq" /\ c.body[i].cmd = "ignore"

Wanted(c) == ~HasIgnore(c) /\ c.diff # ""

FileIds == {f.id : f \in patchDir.files}

\* C13: when export has ended, the commits with an ignore directive of either
\* tag family (Gbp: or Gbp-Pq:) have no patch file and no series entry, and
\* every other commit with a non-empty diff has exactly one patch file and
\* one series entry.
C13_IgnoredCommitsAreSkipped ==
    (Done("export") /\ result = "ok")
        => /\ FileIds = {c.id : c \in {x \in Range(ExportedQueue) : Wanted(x)}}
           /\ Cardinality(patchDir.files) = Len(SelectSeq(ExportedQueue, Wanted))
           /\ Len(loc.patches) = Len(SelectSeq(ExportedQueue, Wanted))
           /\ Len(patchDir.series) = Len(loc.patches)

\* what the code does: only the Gbp-Pq: family makes export skip a commit
C13_OnlyQueueFamilySkips ==
    (Done("export") /\ result = "ok")
        => FileIds = {c.id : c \in {x \in Range(ExportedQueue) : ~HasQueueIgnore(x) /\ x.diff # ""}}

\* two commits, the second tagged "Gbp: ignore", and two patch files exported
C13_Witness ==
    /\ Done("export") /\ result = "ok"
    /\ Len(ExportedQueue) = 2
    /\ ~HasIgnore(ExportedQueue[1]) /\ ExportedQueue[1].diff # ""
    /\ ExportedQueue[2].body = <<Line("gbp", "ignore", "")>>
    /\ Cardinality(patchDir.files) = 2
    /\ Len(patchDir.series) = 2

\* export was invoked with a queue branch that has no commit beyond its base
NothingToExport == has_branch([heads |-> pre.heads], loc.pq_branch) /\ ExportedQueue = <<>>

C14_NothingWrittenDirRemoved ==
    (Done("export") /\ NothingToExport)
        => loc.patches = <<>> /\ patchDir = NoPatchDir /\ result = "ok"

\* export on the base without --drop: the old patch directory is gone
C14_Witness ==
    /\ Done("export") /\ NothingToExport
    /\ arg = loc.branch /\ ~loc.drop
    /\ loc.dirBefore = OldPatchDir
    /\ patchDir = NoPatchDir
    /\ NoSpecFile
    /\ peer = NoPeer
    /\ Unchanged

\* ---------------------------------------------------- claims: format_patch

Formatting == pc = "format"

\* C15: every file name that format_patch derives is at most 63 characters
\* long, and its path differs from every path registered in the series
\* before it, with numbering enabled or disabled.
C15_NamesShortAndDistinct ==
    Formatting
        => /\ \A i \in DOMAIN loc.patches : Len(loc.patches[i].file) <= NameBudget
           /\ \A i, j \in DOMAIN loc.patches : i < j => loc.patches[i] # loc.patches[j]

\* what the code does: the budget is kept, and with numbering the paths differ
C15_BudgetKept ==
    Formatting
        => /\ \A i \in DOMAIN loc.patches : Len(loc.patches[i].file) <= NameBudget
           /\ loc.patch_numbers
                => \A i, j \in DOMAIN loc.patches : i < j => loc.patches[i] # loc.patches[j]

\* without numbering, subjects x, x-2, x: the third file replaced the second
C15_Witness ==
    /\ Formatting /\ ~loc.patch_numbers
    /\ Len(loc.patches) = 3
    /\ loc.patches[3] = loc.patches[2]
    /\ Cardinality(patchDir.files) = 2

\* a cut name: the budget is used up to the last character
C15_WitnessCut ==
    Formatting /\ \E i \in DOMAIN loc.patches : Len(loc.patches[i].file) = NameBudget

\* -------------------------------------------------- claims: compare_series

\* C16: compare_series(old, new) returns as added the paths of new that are
\* not in old and as removed the paths of old that are not in new, so that
\* set(old) + added = set(new) + removed, added shares no path with old and
\* removed shares no path with new.
C16_CompareSeries ==
    Done("compare_series")
        => /\ \A p \in SeriesPaths :
                /\ p \in loc.added <=> (p \in ToSet(loc.new) /\ p \notin ToSet(loc.old))
                /\ p \in loc.removed <=> (p \in ToSet(loc.old) /\ p \notin ToSet(loc.new))
           /\ ToSet(loc.old) \cup loc.added = ToSet(loc.new) \cup loc.removed
           /\ loc.added \cap ToSet(loc.old) = {}
           /\ loc.removed \cap ToSet(loc.new) = {}

\* the example of the doctest: (['a', 'b'], ['b', 'c']) gives (['c'], ['a'])
C16_Witness ==
    /\ Done("compare_series")
    /\ loc.old = <<"a", "b">> /\ loc.new = <<"b", "c">>
    /\ loc.added = {"c"} /\ loc.removed = {"a"}

\* a repeated entry and an empty list
C16_WitnessRepeated ==
    /\ Done("compare_series")
    /\ loc.old = <<"a", "a">> /\ loc.new = <<>>
    /\ loc.added = {} /\ loc.removed = {"a"}

\* ------------------------------------------------------- claims: SpecFile

\* the names of the autoupdate entries, in ascending order of patch number
AutoNames(ps) ==
    LET ks == Sorted({n \in DOMAIN ps : ps[n].autoupdate})
    IN  [i \in 1..Len(ks) |-> ps[ks[i]].name]

\* the tag lines and macro lines of the manually maintained patches of obj
ManualLines(obj) ==
    LET manual == {n \in DOMAIN obj.patches : ~obj.patches[n].autoupdate}
    IN  {At(obj.content, obj.patches[n].tag_linenum) : n \in manual}
            \cup {At(obj.content, obj.patches[n].macro_linenum) :
                    n \in {x \in manual : obj.patches[x].macro_linenum # NoLine}}

\* parse_content has run right after an update_patches call
ParsedAfterUpdate == op = "parse_content" /\ loc.calls > 0

\* C17: update_patches(P) followed by parse_content yields autoupdate
\* entries whose names, by ascending patch number, are P in order, and every
\* tag line and macro line of a manually maintained patch is still in the
\* buffer, for every document and every list P.
C17_RewriteThenParseYieldsP ==
    /\ op = "update_patches" => result = "ok"
    /\ ParsedAfterUpdate
         => /\ result = "ok"
            /\ AutoNames(patches) = loc.P
            /\ ManualLines(loc.before) \subseteq Range(content)

\* the buffer c has a line of kind k
Has(c, k) == \E i \in DOMAIN c : c[i].k = k

\* the usual layout: a Source tag, a %setup line, at most one annotation
Usual(c) ==
    /\ Has(c, "source")
    /\ Has(c, "setup")
    /\ Cardinality({i \in DOMAIN c : c[i].k = "ignore"}) <= 1

\* what the code does: the rewrite keeps its promise on documents that have
\* a Source tag, a %setup line and at most one ignorepatch annotation
C17_HoldsOnUsualDocuments ==
    (loc.calls > 0 /\ Usual(loc.before.content)) => C17_RewriteThenParseYieldsP

\* Name, Source0, Patch0, %prep and no %setup: the rewrite went through and
\* the parse that follows finds Patch0 twice
C17_Witness ==
    /\ ParsedAfterUpdate
    /\ loc.before.content = <<NameLine, SourceLine(0), PatchTagLine(0, "m.patch"), PrepLine, OtherLine>>
    /\ loc.P = <<"a.patch">>
    /\ result = "GbpError"

\* update_patches has just been called a second time with the same list
SameListAgain == op = "update_patches" /\ loc.calls >= 2 /\ loc.P = loc.prevP

\* C18: update_patches called twice in a row with the same list, whatever
\* the list (empty, names not ending in .patch or .diff), leaves the buffer
\* after the second call equal to the buffer after the first call.
C18_RewriteIsIdempotent ==
    SameListAgain => result = "ok" /\ content = loc.before.content

\* what the code does: it is idempotent for a list that is not empty and
\* whose names end in .patch or .diff, on the usual documents
C18_IdempotentForPatchNames ==
    (SameListAgain /\ Usual(loc.before.content)
        /\ loc.P # <<>> /\ \A i \in DOMAIN loc.P : loc.P[i] \in PatchLikeNames)
        => result = "ok" /\ content = loc.before.content

\* the empty list twice: one more banner line than after the first call
C18_Witness ==
    /\ SameListAgain /\ loc.P = <<>> /\ result = "ok"
    /\ loc.before.content = <<NameLine, SourceLine(0), CommentLine(Banner), PrepLine, SetupLine, OtherLine>>
    /\ content = <<NameLine, SourceLine(0), CommentLine(Banner), CommentLine(Banner),
                   PrepLine, SetupLine, OtherLine>>

\* a name that does not end in .patch or .diff: its comment line stays behind
C18_WitnessComment ==
    /\ SameListAgain /\ loc.P = <<"fix", "b.diff">> /\ result = "ok"
    /\ Usual(loc.before.content)
    /\ Cardinality({i \in DOMAIN content : content[i] = CommentLine("fix")}) = 2

\* the buffer c offers none of the places for the %patch macros: no %patch
\* macro, no %setup line, no %prep line
NoMacroAnchor(c) == ~Has(c, "macro") /\ ~Has(c, "setup") /\ ~Has(c, "prep")

\* C19: update_patches on a document without any insertion anchor (no %prep
\* line found) fails with the fatal format error and neither inserts nor
\* removes a line.
C19_NoAnchorIsFatal ==
    (op = "update_patches" /\ NoMacroAnchor(loc.before.content))
        => result = "GbpError" /\ content = loc.before.content

\* what the code does on the first rewrite: the Name tag serves as the
\* anchor, and the only failure left is the TypeError of a document without
\* Source and Patch tags
C19_NameTagIsTheAnchor ==
    (op = "update_patches" /\ loc.calls = 1 /\ NoMacroAnchor(loc.before.content)
        /\ Cardinality({i \in DOMAIN loc.before.content : loc.before.content[i].k = "ignore"}) <= 1)
        => /\ result \in {"ok", "TypeError"}
           /\ result = "TypeError"
                <=> (~Has(loc.before.content, "source") /\ ~Has(loc.before.content, "tag"))
           /\ (result = "ok" /\ loc.P # <<>>) => Len(content) > Len(loc.before.content)

\* Name and Source0 only: the macros were inserted after the Name tag
C19_Witness ==
    /\ op = "update_patches" /\ result = "ok"
    /\ loc.before.content = <<NameLine, SourceLine(0), OtherLine>>
    /\ loc.P = <<"a.patch">>
    /\ content = <<NameLine, CommentLine("a.patch"), CommentLine(Banner),
                   PatchTagLine(0, "a.patch"), PatchMacroLine(0, 1), SourceLine(0), OtherLine>>

\* how often Patch<n> is declared in the buffer c
TagCount(c, n) == Cardinality({i \in DOMAIN c : c[i].k = "tag" /\ c[i].num = n})

DeclaredNums(c) == {c[i].num : i \in {j \in DOMAIN c : c[j].k = "tag"}}

\* the patch numbers listed in an ignorepatch annotation of the buffer c
Listed(c) == UNION {c[i].nums : i \in {j \in DOMAIN c : c[j].k = "ignore"}}

Annotations(c) == Cardinality({i \in DOMAIN c : c[i].k = "ignore"})

\* the unchanged buffer has been parsed again: by parse_content, or by the
\* parse_content call that update_patches starts with
Reparsed ==
    \/ op = "parse_content" /\ loc.calls = 0
    \/ op = "update_patches" /\ loc.calls = 1

ReparsedBuffer == IF op = "update_patches" THEN loc.before.content ELSE content

\* C20: parsing raises the duplicate error exactly when some Patch<N> tag is
\* repeated for an N that no ignorepatch annotation lists; a repeated tag of
\* a listed N is no error; and parsing the unchanged buffer again never
\* raises the duplicate error for patches that are declared once.
C20_DuplicateDeclarations ==
    /\ op = "SpecFile"
         => (result = "GbpError"
               <=> \E n \in DeclaredNums(content) :
                      TagCount(content, n) >= 2 /\ n \notin Listed(content))
    /\ Reparsed
         => (result = "GbpError"
               => \E n \in DeclaredNums(ReparsedBuffer) : TagCount(ReparsedBuffer, n) >= 2)

\* what the code does: the claim holds for a buffer with one annotation
C20_HoldsWithOneAnnotation ==
    (Annotations(IF Reparsed THEN ReparsedBuffer ELSE content) <= 1)
        => C20_DuplicateDeclarations

\* annotation 1, Patch0 declared once, annotation 0: the second parse of the
\* same buffer raises the duplicate error
C20_Witness ==
    /\ op = "parse_content" /\ loc.calls = 0
    /\ content = <<IgnoreLine({1}), NameLine, PatchTagLine(0, "m.patch"), IgnoreLine({0}), OtherLine>>
    /\ result = "GbpError"

\* a repeated tag of a listed patch: the constructor's parse goes through
C20_WitnessListed ==
    /\ op = "SpecFile" /\ result = "ok"
    /\ TagCount(content, 0) = 2 /\ Listed(content) = {0}

\* a repeated tag of a patch that is not listed: the duplicate error
C20_WitnessDuplicate ==
    /\ op = "SpecFile" /\ result = "GbpError"
    /\ TagCount(content, 0) = 2 /\ Listed(content) = {}

\* what a reader of the spec file's path sees at this moment
Observed == disk.spec

Writing == op = "write_spec_file"

\* C21: while write_spec_file runs and after it has returned, the temporary
\* file lies in the directory of the spec file, and a reader of the spec
\* file's path sees the complete old document or the complete new one.
C21_AtomicReplace ==
    Writing =>
        /\ disk.hasTmp => disk.tmpInSpecDir
        /\ Observed \in {loc.old, content}

\* the observation alone, whatever the place of the temporary file
C21_NoPartialDocument == Writing => Observed \in {loc.old, content}

\* where the working directory is the spec file's directory the claim holds
C21_HoldsInSpecDir ==
    (Writing /\ disk.tmpInSpecDir) =>
        /\ disk.sameFs
        /\ Observed \in {loc.old, content}

C21_RenamedInPlace ==
    /\ Writing
    /\ pc = "done"
    /\ disk.tmpInSpecDir
    /\ loc.old # content
    /\ Observed = content

Called(helper) == op = helper /\ pc \in {"name_named", "done"}

HasBranchPlaceholder == "branch" \in groupindex(pq_format_str(loc.options))

NameHelpers == {"pq_branch_match", "is_pq_branch", "pq_branch_name", "pq_branch_base"}

\* C22: with a pattern that has no %(branch)s placeholder, each of the four
\* helpers raises the configuration error for every branch name and returns
\* neither a match nor a name.
C22_NoBranchPlaceholderIsFatal ==
    \A helper \in NameHelpers :
        (Called(helper) /\ ~HasBranchPlaceholder) =>
            /\ result = "GbpError"
            /\ loc.out = Raised("GbpError")

C22_Witness ==
    /\ Called("pq_branch_name")
    /\ ~HasBranchPlaceholder
    /\ loc.options.pq_branch = Chars("pq/") \o <<PlaceholderOf("ver")>>
    /\ loc.extra_keys # None
    /\ result = "GbpError"

\* the helper ran on the name pq_branch_name generated from the given branch
OnGenerated(helper) == Called(helper) /\ loc.named.val # None

IsQueueBranch(name) == is_pq_branch_opt(name, loc.options).val

\* C23: for a pattern with the branch placeholder and a branch b that is not
\* a queue branch, pq_branch_name(b) is a queue branch and pq_branch_base leads
\* back to b; pq_branch_name returns no name exactly for queue branches and
\* pq_branch_base exactly for the others.
C23_NameAndBaseAreInverse ==
    HasBranchPlaceholder =>
        /\ OnGenerated("is_pq_branch") => loc.out = Returned(TRUE)
        /\ OnGenerated("pq_branch_base") => loc.out = Returned(arg)
        /\ (Called("pq_branch_name") /\ loc.out.err = "") =>
               (loc.out.val = None <=> IsQueueBranch(arg))
        /\ (Called("pq_branch_base") /\ loc.out.err = "") =>
               (loc.out.val = None <=> ~IsQueueBranch(loc.subject))

\* with the branch placeholder alone in the pattern the relation is invertible
C23_HoldsWithoutExtraPlaceholders ==
    groupindex(pq_format_str(loc.options)) = {"branch"} => C23_NameAndBaseAreInverse

\* what fails is the way back only
C23_AllButTheWayBack ==
    HasBranchPlaceholder =>
        /\ OnGenerated("is_pq_branch") => loc.out = Returned(TRUE)
        /\ (Called("pq_branch_name") /\ loc.out.err = "") =>
               (loc.out.val = None <=> IsQueueBranch(arg))
        /\ (Called("pq_branch_base") /\ loc.out.err = "") =>
               (loc.out.val = None <=> ~IsQueueBranch(loc.subject))

C23_WrongBase ==
    /\ OnGenerated("pq_branch_base")
    /\ pc = "done"
    /\ arg = Chars("m")
    /\ loc.extra_keys = Chars("1-2")
    /\ loc.out.val = Chars("m") \o <<"-", "1">>

\* the repository calls of the log, without the revisions
Calls == [i \in DOMAIN log |-> <<log[i].call, log[i].branch>>]

LastCalls(n) == SubSeq(Calls, Len(log) - n + 1, Len(log))

AttemptStarts == op = "import" /\ pc = "imp_create"

RECURSIVE CurrentAt(_)
CurrentAt(i) ==
    IF i <= 1 THEN pre.cur
    ELSE IF log[i - 1].call = "checkout" THEN log[i - 1].branch
    ELSE CurrentAt(i - 1)

ForcedOnQueue == op = "import" /\ is_pq_branch(arg) /\ loc.force /\ pc # "imp_branch"

MessageOf(p) ==
    IF p.topic = "" THEN <<p.subject, "", p.long_desc>>
    ELSE <<p.subject, "", p.long_desc, "Gbp-Pq: Topic " \o p.topic>>

LastCreate == Max({i \in DOMAIN log : log[i].call = "create_branch"})

\* the commits made since the queue branch was last created
AttemptCommits ==
    SelectSeq(SubSeq(log, LastCreate + 1, Len(log)), LAMBDA e : e.call = "commit")

\* commit c is commit `start` followed by the commits of the first n patches
HoldsPatches(c, start, n) ==
    /\ c.base = start.base
    /\ c.q = start.q \o [i \in 1..n |-> MessageOf(loc.queue[i])]

C26_FailedAfterFirstPatch ==
    /\ AttemptStarts
    /\ loc.ci > 1
    /\ Len(AttemptCommits) = 1

\* the commit whose patch file the series entry names
EntryId(entry) ==
    (CHOOSE f \in patchDir.files : relpath(f.path, PATCH_DIR) = entry).id

Exporting == op = "export" /\ pc = "exp_commit"

\* the series file against the files and the order of this export
C27_SeriesMatchesEmittedFiles ==
    /\ Exporting =>
         LET n == Len(ExportedQueue)
         IN  loc.rev_list = SubSeq(ExportedQueue, n - Len(loc.rev_list) + 1, n)
    /\ (Done("export") /\ loc.patches # <<>>) =>
         /\ patchDir.hasSeries
         /\ Len(patchDir.series) = Cardinality(patchDir.files)
         /\ \A i \in DOMAIN patchDir.series :
              /\ patchDir.series[i].dir = ""
              /\ \E f \in patchDir.files : relpath(f.path, PATCH_DIR) = patchDir.series[i]
         /\ \A i, j \in DOMAIN patchDir.series :
              i < j => EntryId(patchDir.series[i]) < EntryId(patchDir.series[j])
         /\ FileIds \subseteq {c.id : c \in Range(ExportedQueue)}

C27_OverEarlierExport ==
    /\ Done("export")
    /\ loc.dirBefore = OldPatchDir
    /\ Len(ExportedQueue) = 2
    /\ Len(patchDir.series) = 2
    /\ EntryId(patchDir.series[1]) = 1
    /\ EntryId(patchDir.series[2]) = 2

\* a skipped commit between none: the one entry is that of the second commit
C27_SkippedHasNoEntry ==
    /\ Done("export")
    /\ Len(ExportedQueue) = 2
    /\ HasQueueIgnore(ExportedQueue[1])
    /\ Len(patchDir.series) = 1
    /\ EntryId(patchDir.series[1]) = 2

\* the topic directives of a commit message under the tag families
TopicArgs(c, families) ==
    {c.body[i].args : i \in {n \in DOMAIN c.body :
                                c.body[n].tag \in families /\ c.body[n].cmd = "topic"}}

\* the patch file of commit c lies in sub-directory t, and so does its entry
RenderedUnder(c, t) ==
    \A f \in patchDir.files :
        f.id = c.id =>
            /\ f.path.topic = t
            /\ \E i \in DOMAIN patchDir.series :
                 patchDir.series[i] = relpath(f.path, PATCH_DIR) /\ patchDir.series[i].topic = t

TopicsHonoured(families) ==
    (Done("export") /\ loc.patches # <<>>) =>
        \A c \in Range(ExportedQueue) :
            \A t \in TopicArgs(c, families) :
                /\ t # "" => RenderedUnder(c, t)
                /\ t = "" => RenderedUnder(c, "")

\* C28: a commit with a topic directive of the Gbp: or of the Gbp-Pq: family
\* is exported under the sub-directory of that name, in the patch directory
\* and in the series file; a topic directive without argument sets no topic.
C28_TopicOfEitherFamily == TopicsHonoured({"gbp", "gbp-pq"})

\* what the code does: the directive counts under the Gbp-Pq: family only
C28_TopicOfQueueFamily == TopicsHonoured({"gbp-pq"})

C28_QueueTopicRendered ==
    /\ Done("export")
    /\ \E c \in Range(ExportedQueue) :
         /\ TopicArgs(c, {"gbp-pq"}) = {"t1"}
         /\ \E f \in patchDir.files : f.id = c.id /\ f.path.topic = "t1"

C28_GenericTopicLost ==
    /\ Done("export")
    /\ \E c \in Range(ExportedQueue) :
         /\ TopicArgs(c, {"gbp"}) = {"t1"}
         /\ \E f \in patchDir.files : f.id = c.id /\ f.path.topic = ""

\* the last call of format_patch had nothing to render: the commit changes
\* nothing, or the exclusion pattern matches every path it touches
NothingToRender ==
    \/ loc.last.diff = ""
    \/ /\ loc.last.path_exclude_regex # ""
       /\ \A fname \in loc.last.files : fname[1] = loc.last.path_exclude_regex

\* C29: a call of format_patch for a commit with an empty diff, or with every
\* touched path excluded, returns no patch, writes no file and adds no series
\* entry, and it takes no ordinal: the numbered patches of the series carry
\* the ordinals 1, 2, ... without a gap.
C29_NoZeroChangePatch ==
    (Formatting /\ loc.last.called) =>
        /\ NothingToRender =>
             /\ loc.last.patch = None
             /\ patchDir.files = loc.last.before.pd.files
             /\ loc.patches = loc.last.before.series
        /\ ~NothingToRender =>
             /\ loc.last.patch # None
             /\ Len(loc.patches) = Len(loc.last.before.series) + 1
        /\ loc.patch_numbers =>
             \A i \in DOMAIN loc.patches : Take(loc.patches[i].file, 4) = Pad4(i)

\* a commit with every path excluded between two commits that were rendered
C29_Witness ==
    /\ Formatting
    /\ loc.last.called
    /\ loc.last.path_exclude_regex = "doc"
    /\ loc.last.files = {DocFile}
    /\ loc.last.patch = None
    /\ loc.patch_numbers
    /\ Len(loc.patches) = 1

C29_RenderedAfterSkipped ==
    /\ Formatting
    /\ loc.patch_numbers
    /\ Len(loc.patches) = 2
    /\ loc.last.path_exclude_regex = "doc"
    /\ loc.last.files = {SrcFile, DocFile}
    /\ loc.last.patch # None
    /\ Take(loc.last.patch.file, 4) = Pad4(2)

Rewritten == op = "update_patches" /\ result = "ok"

\* the manually maintained patches that the rewrite found
ManualNums == {n \in DOMAIN loc.before.patches : ~loc.before.patches[n].autoupdate}

NextFree == IF ManualNums = {} THEN 0 ELSE Max(ManualNums) + 1

AutoNums == {n \in DOMAIN patches : patches[n].autoupdate}

\* the Patch tag lines of the buffer that declare index n
TagLines(n) == {i \in DOMAIN content : content[i].k = "tag" /\ content[i].num = n}

\* the document handed to the rewrite declares no Patch index twice
DeclaredOnce ==
    \A i, j \in DOMAIN loc.before.content :
        (/\ loc.before.content[i].k = "tag"
         /\ loc.before.content[j].k = "tag"
         /\ loc.before.content[i].num = loc.before.content[j].num) => i = j

\* the object after update_patches(P): the new patches are numbered from one
\* past the largest manual index, in list order
C30_NumberedFromNextFree ==
    Rewritten =>
        /\ AutoNums = NextFree..(NextFree + Len(loc.P) - 1)
        /\ \A i \in DOMAIN loc.P : patches[NextFree + i - 1].name = loc.P[i]
        /\ AutoNums \cap ManualNums = {}

\* C30: update_patches numbers the new patches consecutively in list order
\* from one past the largest manually maintained index (from 0 without
\* one); after the rewrite no autoupdate patch has the index of a manual
\* patch and the document declares no Patch index twice.
C30_NoSharedOrRepeatedIndex ==
    /\ C30_NumberedFromNextFree
    /\ (Rewritten /\ DeclaredOnce) =>
         /\ \A n \in AutoNums : Cardinality(TagLines(n)) = 1
         /\ \A n \in ManualNums : Cardinality(TagLines(n)) = 1

\* what the code does: on documents with a Source tag, a %setup line and at
\* most one annotation the rewrite declares every index once
C30_HoldsOnUsualDocuments ==
    (loc.calls > 0 /\ Usual(loc.before.content)) => C30_NoSharedOrRepeatedIndex

\* Name, Patch0 (autoupdate) and no %setup: after the rewrite the old Patch0
\* line is still there, next to the new one
C30_OldTagLineStays ==
    /\ Rewritten
    /\ loc.calls = 1
    /\ loc.P = <<"a.patch">>
    /\ ManualNums = {}
    /\ Cardinality(TagLines(0)) = 2

\* the parse at the start of the last rewrite
Before == loc.before

\* concatenation of the sequences f[1], ..., f[n]
RECURSIVE Flatten(_, _)
Flatten(f, n) == IF n = 0 THEN <<>> ELSE Flatten(f, n - 1) \o f[n]

\* the applicator lines a rewrite with list loc.P is to generate
MacroBlock ==
    Flatten([i \in DOMAIN loc.P |->
                <<CommentLine(loc.P[i]), PatchMacroLine(NextFree + i - 1, 1)>>], Len(loc.P))

\* the declaration lines a rewrite with list loc.P is to generate
TagBlock ==
    <<CommentLine(Banner)>>
        \o [i \in DOMAIN loc.P |-> PatchTagLine(NextFree + i - 1, loc.P[i])]

\* block sits in the buffer right after line number a (counted from 1)
FollowsLine(block, a) ==
    /\ a + Len(block) <= Len(content)
    /\ SubSeq(content, a + 1, a + Len(block)) = block

LastLine(ok(_)) ==
    LET S == {i \in DOMAIN content : ok(content[i])} IN IF S = {} THEN 0 ELSE Max(S)

OldMacros(auto) ==
    {n \in DOMAIN Before.patches :
        Before.patches[n].autoupdate = auto /\ Before.patches[n].macro_linenum # NoLine}

IsManualMacro(l) == l.k = "macro" /\ l.num \in ManualNums
IsSetup(l) == l.k = "setup"
IsPrep(l) == l.k = "prep"

\* the first anchor of the applicator lines that the document offers
MacroAnchor ==
    IF OldMacros(TRUE) # {} THEN "removed"
    ELSE IF OldMacros(FALSE) # {} THEN "manual"
    ELSE IF Has(Before.content, "setup") THEN "setup"
    ELSE IF Has(Before.content, "prep") THEN "prep"
    ELSE "none"

FirstRewrite == Rewritten /\ loc.calls = 1 /\ DeclaredOnce

\* C31: the rewrite puts the new applicator lines, ascending and each after
\* the comment with its name, right after the last removed applicator line,
\* else the last manual one, else the last %setup line, else the %prep line.
C31_ApplicatorsAfterAnchor ==
    FirstRewrite =>
        /\ MacroAnchor = "removed" => \E a \in 0..Len(content) : FollowsLine(MacroBlock, a)
        /\ MacroAnchor = "manual" => FollowsLine(MacroBlock, LastLine(IsManualMacro))
        /\ MacroAnchor = "setup" => FollowsLine(MacroBlock, LastLine(IsSetup))
        /\ MacroAnchor = "prep" => FollowsLine(MacroBlock, LastLine(IsPrep))

\* what the code does with a %setup line or a manual applicator line at hand
C31_HoldsWithSetupOrManual ==
    (FirstRewrite /\ MacroAnchor \in {"manual", "setup"} /\ Usual(Before.content))
        => C31_ApplicatorsAfterAnchor

\* %prep without %setup and without %patch: the lines went after the Name line
C31_AfterNameLine ==
    /\ FirstRewrite
    /\ MacroAnchor = "prep"
    /\ loc.P = <<"a.patch">>
    /\ ~FollowsLine(MacroBlock, LastLine(IsPrep))
    /\ content[2] = CommentLine("a.patch")

OldTags(auto) ==
    {n \in DOMAIN Before.patches :
        Before.patches[n].autoupdate = auto /\ Before.patches[n].tag_linenum # NoLine}

IsManualTag(l) == l.k = "tag" /\ l.num \in ManualNums
IsSource(l) == l.k = "source"
IsName(l) == l.k = "name"

\* the first anchor of the declaration lines that the document offers
TagAnchor ==
    IF OldTags(TRUE) # {} THEN "removed"
    ELSE IF OldTags(FALSE) # {} THEN "manual"
    ELSE IF DOMAIN Before.sources # {} THEN "source"
    ELSE "name"

FirstUpdate == op = "update_patches" /\ loc.calls = 1 /\ DeclaredOnce

\* C32: the rewrite puts one banner and the new Patch tag lines, ascending,
\* right after the last removed declaration line, else the last manual one,
\* else the last Source tag, else the Name tag.
C32_DeclarationsAfterAnchor ==
    FirstUpdate =>
        /\ result = "ok"
        /\ TagAnchor = "removed" => \E a \in 0..Len(content) : FollowsLine(TagBlock, a)
        /\ TagAnchor = "manual" => FollowsLine(TagBlock, LastLine(IsManualTag))
        /\ TagAnchor = "source" => FollowsLine(TagBlock, LastLine(IsSource))
        /\ TagAnchor = "name" => FollowsLine(TagBlock, LastLine(IsName))

\* what the code does when a %setup line and a Source or manual Patch tag exist
C32_HoldsWithSourceOrManual ==
    (FirstUpdate /\ TagAnchor \in {"manual", "source"} /\ Usual(Before.content))
        => C32_DeclarationsAfterAnchor

\* a Name tag, no Patch tag, no Source tag: the rewrite fails on the anchor
C32_NameAnchorFails ==
    /\ FirstUpdate
    /\ TagAnchor = "name"
    /\ result = "TypeError"
    /\ ~\E i \in DOMAIN content : content[i].k = "tag"

\* line number i (counted from 0) of the buffer holds the kind line of index n
PointsAt(i, kind, n) ==
    /\ 0 <= i /\ i < Len(content)
    /\ content[i + 1].k = kind
    /\ content[i + 1].num = n

Recorded(entries, field) == {n \in DOMAIN entries : entries[n][field] # NoLine}

C33_NewEntriesHaveNoLine ==
    Rewritten =>
        /\ \A n \in AutoNums :
              patches[n].tag_linenum = NoLine /\ patches[n].macro_linenum = NoLine
        /\ (loc.calls = 1 /\ Usual(Before.content))
              => \A n \in Recorded(sources, "tag_linenum") :
                     PointsAt(sources[n].tag_linenum, "source", n)

\* a manual %patch line moved down by the inserted declarations, its recorded
\* line number did not
C33_StaleApplicatorLine ==
    /\ Rewritten
    /\ Usual(Before.content)
    /\ \E n \in ManualNums :
          /\ patches[n].macro_linenum # NoLine
          /\ ~PointsAt(patches[n].macro_linenum, "macro", n)
          /\ \E i \in DOMAIN content : IsManualMacro(content[i])

\* the document the object was read from, which no rewrite writes back
Document == disk.spec

\* update_patches(P) as the only rewrite of the document
SingleCall(P) == update_patches([NoObj EXCEPT !.content = Document], P)

SecondRewrite == Rewritten /\ loc.calls = 2

\* C39: the buffer after update_patches(P1); update_patches(P2) is the buffer
\* after the single call update_patches(P2) on the document.
C39_RewritesDoNotAccumulate ==
    SecondRewrite => SingleCall(loc.P).err = "" /\ content = SingleCall(loc.P).content

\* what the code does: the second rewrite leaves the %patch lines and their
\* name comments of the single call when the document has a Source tag, a
\* %setup line and no Patch tag of its own
C39_ApplicatorsDoNotAccumulate ==
    (SecondRewrite /\ Usual(Document) /\ ~Has(Document, "tag"))
        => /\ SingleCall(loc.P).err = ""
           /\ SelectSeq(content, LAMBDA l : l.k = "macro")
                = SelectSeq(SingleCall(loc.P).content, LAMBDA l : l.k = "macro")

\* the banner of the first rewrite is still there after the second
C39_BannerSurvives ==
    /\ SecondRewrite
    /\ Document = <<NameLine, SourceLine(0), PrepLine, SetupLine, OtherLine>>
    /\ loc.prevP = <<>>
    /\ loc.P = <<"a.patch">>
    /\ content # SingleCall(loc.P).content
    /\ Len(SelectSeq(content, IsAutoGenComment)) = 2
    /\ Len(SelectSeq(SingleCall(loc.P).content, IsAutoGenComment)) = 1

\* the base branch of the import under way: the branch it was started on, or
\* the base of the queue branch it was started on
ImportBase == IF is_pq_branch(arg) THEN pq_branch_base(arg) ELSE arg

ApplyStart ==
    IF pre.heads[QueueOf(arg)] # NoCommit THEN pre.heads[QueueOf(arg)]
    ELSE pre.heads[arg]

CallsOf(c) == SelectSeq(log, LAMBDA e : e.call = c)

\* the call got past switch_to_pq_branch
Switched == result \in {"ok", "GitRepositoryError"} /\ cur = QueueOf(arg)

\* C34: apply_single_patch switches to the queue branch, creating it at HEAD
\* if it is missing, and makes one commit; a patch that does not apply raises
\* the failure with the queue branch current, present and without a new
\* commit, and nothing is retried at another commit.
C34_SingleApply ==
    Done("apply_single_patch") =>
        /\ result = "ok" <=> (Switched /\ loc.applies)
        /\ Len(CallsOf("create_branch")) <= 1
        /\ \A i \in DOMAIN log :
              log[i].call = "create_branch"
                  => /\ log[i].branch = QueueOf(arg)
                     /\ log[i].rev = pre.heads[arg]
                     /\ ~has_branch(pre, QueueOf(arg))
        /\ CallsOf("delete_branch") = <<>>
        /\ Switched =>
              /\ has_branch(Repo, QueueOf(arg))
              /\ Len(CallsOf("commit")) = (IF loc.applies THEN 1 ELSE 0)
              /\ heads[QueueOf(arg)].base = ApplyStart.base
              /\ loc.applies => Len(heads[QueueOf(arg)].q) = Len(ApplyStart.q) + 1
              /\ ~loc.applies
                    => /\ result = "GitRepositoryError"
                       /\ heads[QueueOf(arg)] = ApplyStart
        /\ \A b \in Branches \ {QueueOf(arg)} : heads[b] = pre.heads[b]

\* the patch did not apply on a queue branch that the call had just created
C34_Witness ==
    /\ Done("apply_single_patch")
    /\ ~loc.applies
    /\ result = "GitRepositoryError"
    /\ ~has_branch(pre, QueueOf(arg))
    /\ cur = QueueOf(arg)
    /\ heads[cur] = pre.heads[arg]
    /\ Len(CallsOf("create_branch")) = 1

\* a second patch was committed on top of the first
C34_SecondPatch ==
    /\ Done("apply_single_patch")
    /\ result = "ok"
    /\ Len(heads[cur].q) = 2
    /\ Len(CallsOf("commit")) = 1

\* the base branch of the export under way
ExportBase == IF is_pq_branch(arg) THEN pq_branch_base(arg) ELSE arg

\* an export is past its first step
InExport == op = "export" /\ pc # "idle"

\* the current branch and the queue branch during and after an export
ExportBranches ==
    InExport =>
        /\ cur = ExportBase
        /\ CallsOf("checkout") = (IF is_pq_branch(arg)
                                  THEN <<Call("checkout", ExportBase, NoCommit)>>
                                  ELSE <<>>)
        /\ (~loc.drop \/ pc # "done")
              => heads = pre.heads
        /\ (pc = "done" /\ loc.drop /\ result = "ok")
              => ~has_branch(Repo, pq_branch_name(ExportBase))

C37_Dropped ==
    /\ Done("export")
    /\ result = "ok"
    /\ is_pq_branch(arg)
    /\ loc.drop
    /\ has_branch(pre, arg)
    /\ ~has_branch(Repo, arg)

\* the series file that import read, and that the export found
ImportedSeries == loc.dirBefore.series

\* the commits of the queue branch when the export started
ExportedCommits == pre.heads[loc.pq_branch].q

\* patch i of the new series was written for commit i, which import made
\* from patch i of the old series
SamePatch(i) ==
    /\ patchDir.series[i].topic = ImportedSeries[i].topic
    /\ \E f \in patchDir.files :
          /\ relpath(f.path, PATCH_DIR) = patchDir.series[i]
          /\ f.id = i
    /\ ExportedCommits[i].patchname = patchname_of(Patch(i, "").subject)

\* the body that export writes for commit c has no topic directive left
TopicStripped(c) ==
    LET parsed == parse_gbp_commands(c.body, "gbp-pq", "ignore", "topic", "topic")
    IN  \A j \in DOMAIN parsed.body : parsed.body[j].tag # "gbp-pq"

WrongCommit ==
    /\ op = "import"
    /\ \E i \in DOMAIN log : log[i].call = "commit" /\ log[i].branch # QueueOf(arg)

C35_RollbackUnderPeer ==
    /\ peer.overlap
    /\ peer.pc = "done"
    /\ peer.stale
    /\ op = "import"
    /\ peer.branch = loc.pq_branch
    /\ loc.failedAt # {}

====
